---- MODULE Spec2Model ----
(***************************************************************************)
(* A model of tig's runtime configuration engine (src/options.c): the      *)
(* option registry and its value coercers, the `set', `color', `bind' and  *)
(* `source' commands, the line-by-line configuration loader, load_options  *)
(* and the importer of the external tool's configuration keys.             *)
(*                                                                         *)
(* C strings are sequences of one-character strings, so that atoi, prefix  *)
(* tests, case folding, comment stripping and tokenizing are computed on   *)
(* characters as the code computes them.                                   *)
(***************************************************************************)
EXTENDS Integers, Sequences, FiniteSets, TLC

VARIABLES
    value,          \* the options' storage: option id -> value
    seen,           \* option id -> the option's seen flag
    opt_notes_arg,  \* the --show-notes argument kept for the external tool
    rules,          \* style rules: (prefix, selector) -> fg, bg, attr
    keybindings,    \* <<key map, key>> -> the bound request or run-command
    pass,           \* the configuration source being loaded and its config_state
    phase,          \* the position of load_options
    env,            \* the environment load_options read
    last,           \* the last command dispatched and its status
    cmdline,        \* history: option id -> the value its command-line flag set
    colorlog,       \* history: rule -> what the `color' commands for it asked
    passlog,        \* history: the sources load_options has gone through
    ops             \* top-level calls made so far

vars == <<value, seen, opt_notes_arg, rules, keybindings,
          pass, phase, env, last, cmdline, colorlog, passlog, ops>>

(***************************************************************************)
(* Bounds of the model.                                                    *)
(***************************************************************************)
\* longest configuration source of the load specification, in lines
MaxLines == 2
\* longest command line of the exhaustive set handed to
\* update_options_from_argv, in flags
MaxFlags == 1
\* number of top-level calls (load_options, update_options_from_argv, imported
\* keys) in a run
MaxOps == 3
MaxKeys == 2

(***************************************************************************)
(* Characters and C string helpers.                                        *)
(***************************************************************************)
UpperSeq == <<"A","B","C","D","E","F","G","H","I","J","K","L","M",
              "N","O","P","Q","R","S","T","U","V","W","X","Y","Z">>
LowerSeq == <<"a","b","c","d","e","f","g","h","i","j","k","l","m",
              "n","o","p","q","r","s","t","u","v","w","x","y","z">>
DigitSeq == <<"0","1","2","3","4","5","6","7","8","9">>

UpperOf == [c \in {LowerSeq[i] : i \in 1..26} |->
               UpperSeq[CHOOSE i \in 1..26 : LowerSeq[i] = c]]

toupper(c) == IF c \in DOMAIN UpperOf THEN UpperOf[c] ELSE c

DigitOf == [c \in {DigitSeq[i] : i \in 1..10} |->
               (CHOOSE i \in 1..10 : DigitSeq[i] = c) - 1]

isdigit(c) == c \in DOMAIN DigitOf
DigitVal(c) == DigitOf[c]
isspace(c) == c \in {" ", "\t"}

\* !strcmp(a, b)
streq(a, b) == a = b

\* !prefixcmp(str, prefix): str starts with prefix
has_prefix(str, prefix) ==
    /\ Len(str) >= Len(prefix)
    /\ SubSeq(str, 1, Len(prefix)) = prefix

\* the string from offset n on (str + n)
skip(str, n) == SubSeq(str, n + 1, Len(str))

\* strcspn(str, reject)
RECURSIVE strcspn_from(_, _, _)
strcspn_from(str, reject, i) ==
    IF i > Len(str) \/ str[i] \in reject THEN i - 1
    ELSE strcspn_from(str, reject, i + 1)
strcspn(str, reject) == strcspn_from(str, reject, 1)

\* strchr(str, c) != NULL
strchr(str, c) == \E i \in 1..Len(str) : str[i] = c

\* strstr(str, sub) != NULL
strstr(str, sub) ==
    \E i \in 0..(Len(str) - Len(sub)) : SubSeq(str, i + 1, i + Len(sub)) = sub

\* the decimal digits of atoi's argument from position i on
RECURSIVE atoi_digits(_, _, _)
atoi_digits(str, i, acc) ==
    IF i > Len(str) \/ ~isdigit(str[i]) THEN acc
    ELSE atoi_digits(str, i + 1, acc * 10 + DigitVal(str[i]))

\* atoi(3): leading blanks, an optional sign, then digits; 0 when there are none
atoi(str) ==
    LET start == strcspn_from(str, {c \in {str[i] : i \in 1..Len(str)} : ~isspace(c)}, 1) + 1
        neg == start <= Len(str) /\ str[start] = "-"
        signed == start <= Len(str) /\ str[start] \in {"-", "+"}
        n == atoi_digits(str, IF signed THEN start + 1 ELSE start, 0)
    IN IF neg THEN 0 - n ELSE n

\* string_enum_compare(a, b, len) == 0: equal up to letter case
string_enum_compare(a, b, len) ==
    IF \A i \in 1..len : toupper(a[i]) = toupper(b[i]) THEN 0 ELSE 1

\* enum_equals(entry, str, len)
enum_equals(name, str) ==
    Len(name) = Len(str) /\ string_enum_compare(name, str, Len(str)) = 0

\* tokens joined by single blanks: the text of a value
RECURSIVE Join(_)
Join(toks) ==
    IF toks = <<>> THEN <<>>
    ELSE IF Len(toks) = 1 THEN toks[1]
    ELSE toks[1] \o <<" ">> \o Join(Tail(toks))

\* F applied to x, computed once: the local variable of the code that holds
\* the result of one call
With(x, F(_)) == F(x)

\* a `const char *' that may be NULL
Null == [null |-> TRUE, str |-> <<>>]
Str(s) == [null |-> FALSE, str |-> s]

(***************************************************************************)
(* Status codes.                                                           *)
(***************************************************************************)
SUCCESS == [code |-> "SUCCESS", fmt |-> "", args |-> <<>>]

\* error(fmt, ...): a custom-message status, never SUCCESS
error(fmt, args) == [code |-> "ERROR_CUSTOM_MESSAGE", fmt |-> fmt, args |-> args]

ERROR_UNMATCHED_QUOTATION == [code |-> "ERROR_UNMATCHED_QUOTATION", fmt |-> "", args |-> <<>>]
ERROR_FILE_DOES_NOT_EXIST == [code |-> "ERROR_FILE_DOES_NOT_EXIST", fmt |-> "", args |-> <<>>]
ERROR_NO_OPTION_VALUE == [code |-> "ERROR_NO_OPTION_VALUE", fmt |-> "", args |-> <<>>]

(***************************************************************************)
(* String constants of the source.                                         *)
(***************************************************************************)
s_set == <<"s","e","t">>
s_color == <<"c","o","l","o","r">>
s_bind == <<"b","i","n","d">>
s_source == <<"s","o","u","r","c","e">>
s_eq == <<"=">>
s_tab_size == <<"t","a","b","-","s","i","z","e">>
s_line_number_interval == <<"l","i","n","e","-","n","u","m","b","e","r","-","i","n","t","e","r","v","a","l">>
s_id_width == <<"i","d","-","w","i","d","t","h">>
s_title_overflow == <<"t","i","t","l","e","-","o","v","e","r","f","l","o","w">>
s_diff_context == <<"d","i","f","f","-","c","o","n","t","e","x","t">>
s_commit_order == <<"c","o","m","m","i","t","-","o","r","d","e","r">>
s_ignore_space == <<"i","g","n","o","r","e","-","s","p","a","c","e">>
s_show_notes == <<"s","h","o","w","-","n","o","t","e","s">>
s_file_filter == <<"f","i","l","e","-","f","i","l","t","e","r">>
s_diff_options == <<"d","i","f","f","-","o","p","t","i","o","n","s">>
s_reference_format == <<"r","e","f","e","r","e","n","c","e","-","f","o","r","m","a","t">>
s_1 == <<"1">>
s_0 == <<"0">>
s_true == <<"t","r","u","e">>
s_false == <<"f","a","l","s","e">>
s_yes == <<"y","e","s">>
s_no == <<"n","o">>
s_50 == <<"5","0">>
s_default == <<"d","e","f","a","u","l","t">>
s_topo == <<"t","o","p","o">>
s_date == <<"d","a","t","e">>
s_author_date == <<"a","u","t","h","o","r","-","d","a","t","e">>
s_reverse == <<"r","e","v","e","r","s","e">>
s_all == <<"a","l","l">>
s_some == <<"s","o","m","e">>
s_at_eol == <<"a","t","-","e","o","l">>
f_topo_order == <<"-","-","t","o","p","o","-","o","r","d","e","r">>
f_date_order == <<"-","-","d","a","t","e","-","o","r","d","e","r">>
f_author_date_order == <<"-","-","a","u","t","h","o","r","-","d","a","t","e","-","o","r","d","e","r">>
f_reverse == <<"-","-","r","e","v","e","r","s","e">>
f_ignore_all_space == <<"-","-","i","g","n","o","r","e","-","a","l","l","-","s","p","a","c","e">>
f_ignore_space_change == <<"-","-","i","g","n","o","r","e","-","s","p","a","c","e","-","c","h","a","n","g","e">>
f_ignore_space_at_eol == <<"-","-","i","g","n","o","r","e","-","s","p","a","c","e","-","a","t","-","e","o","l">>
f_no_notes == <<"-","-","n","o","-","n","o","t","e","s">>
f_notes == <<"-","-","n","o","t","e","s">>
f_U == <<"-","U">>

\* SIZEOF_REV, the length of a revision id plus one
SIZEOF_REV == 41

\* NOTES_ARG and NOTES_EQ_ARG
NOTES_ARG == <<"-","-","s","h","o","w","-","n","o","t","e","s">>
NOTES_EQ_ARG == NOTES_ARG \o <<"=">>

(***************************************************************************)
(* Enum maps.                                                              *)
(***************************************************************************)
\* map_enum_do(map, value, name): the first entry whose name equals `name'
\* (same length, letter case ignored); 0 when there is none
map_enum_index(map, name) ==
    With({i \in 1..Len(map) : enum_equals(map[i].name, name)}, LAMBDA found :
        IF found = {} THEN 0
        ELSE CHOOSE i \in found : \A j \in found : i <= j)

ignore_space_arg_map == <<
    [name |-> <<>>,                  value |-> 0],
    [name |-> f_ignore_all_space,    value |-> 1],
    [name |-> f_ignore_space_change, value |-> 2],
    [name |-> f_ignore_space_at_eol, value |-> 3] >>

commit_order_arg_map == <<
    [name |-> <<>>,                value |-> 0],
    [name |-> f_topo_order,        value |-> 1],
    [name |-> f_date_order,        value |-> 2],
    [name |-> f_author_date_order, value |-> 3],
    [name |-> f_reverse,           value |-> 4] >>

\* the maps find_enum_map returns for the two enumerated options
ignore_space_map == <<
    [name |-> s_no,     value |-> 0],
    [name |-> s_all,    value |-> 1],
    [name |-> s_some,   value |-> 2],
    [name |-> s_at_eol, value |-> 3] >>

commit_order_map == <<
    [name |-> s_default,     value |-> 0],
    [name |-> s_topo,        value |-> 1],
    [name |-> s_date,        value |-> 2],
    [name |-> s_author_date, value |-> 3],
    [name |-> s_reverse,     value |-> 4] >>

\* !strncmp(option->type, "enum", 4)
IsEnumType(type) == type \in {"enum commit_order", "enum ignore_space"}

find_enum_map(type) ==
    IF type = "enum commit_order" THEN commit_order_map ELSE ignore_space_map

(***************************************************************************)
(* Value coercers.  Each returns the value left in *opt and the status.    *)
(***************************************************************************)
\* a mutant of parse_step: the bounds are tested before the shift
parse_step_unshifted(arg) ==
    With(atoi(arg), LAMBDA n :
        IF ~strchr(arg, "%") THEN [val |-> [num |-> n, den |-> 1], code |-> SUCCESS]
        ELSE IF n >= 100
             THEN [val |-> [num |-> 99, den |-> 100],
                   code |-> error("Percentage is larger than 100%", <<>>)]
        ELSE IF n < 0
             THEN [val |-> [num |-> 1, den |-> 1],
                   code |-> error("Percentage is less than 0%", <<>>)]
        ELSE [val |-> [num |-> n - 1, den |-> 100], code |-> SUCCESS])

parse_step(arg) ==
    With(atoi(arg), LAMBDA n :
        IF ~strchr(arg, "%") THEN [val |-> [num |-> n, den |-> 1], code |-> SUCCESS]
        ELSE IF n - 1 >= 100
             THEN [val |-> [num |-> 99, den |-> 100],
                   code |-> error("Percentage is larger than 100%", <<>>)]
        ELSE IF n - 1 < 0
             THEN [val |-> [num |-> 1, den |-> 1],
                   code |-> error("Percentage is less than 0%", <<>>)]
        ELSE [val |-> [num |-> n - 1, den |-> 100], code |-> SUCCESS])

parse_int(old, arg, min, max) ==
    With(atoi(arg), LAMBDA v :
        IF min <= v /\ v <= max
        THEN [val |-> v, code |-> SUCCESS]
        ELSE [val |-> old, code |-> error("Value must be between %d and %d", <<>>)])

parse_bool(arg) ==
    With(streq(arg, s_1) \/ streq(arg, s_true) \/ streq(arg, s_yes), LAMBDA opt :
        IF opt \/ streq(arg, s_0) \/ streq(arg, s_false) \/ streq(arg, s_no)
        THEN [val |-> opt, code |-> SUCCESS]
        ELSE [val |-> opt,
              code |-> error("Non-boolean value treated as false: %s", <<arg>>)])

parse_enum(arg, map) ==
    With(map_enum_index(map, arg), LAMBDA i :
        IF i # 0 THEN [val |-> map[i].value, code |-> SUCCESS]
        ELSE [val |-> IF parse_bool(arg).val THEN map[2].value ELSE map[1].value,
              code |-> SUCCESS])

is_quoted(c) == c \in {"\"", "'"}

parse_string(old, arg) ==
    IF Len(arg) > 0 /\ is_quoted(arg[1])
    THEN IF Len(arg) = 1 \/ arg[Len(arg)] # arg[1]
         THEN [val |-> old, code |-> ERROR_UNMATCHED_QUOTATION]
         ELSE [val |-> SubSeq(arg, 2, Len(arg) - 1), code |-> SUCCESS]
    ELSE [val |-> arg, code |-> SUCCESS]

(***************************************************************************)
(* The option registry.  A store S holds the options' values and seen      *)
(* flags, opt_notes_arg, the style rules and the key bindings.             *)
(***************************************************************************)
option_info == <<
    [name |-> s_tab_size,     type |-> "int",               id |-> "tab_size"],
    [name |-> s_diff_context, type |-> "int",               id |-> "diff_context"],
    [name |-> s_commit_order, type |-> "enum commit_order", id |-> "commit_order"],
    [name |-> s_ignore_space, type |-> "enum ignore_space", id |-> "ignore_space"],
    [name |-> s_show_notes,   type |-> "bool",              id |-> "show_notes"],
    [name |-> s_file_filter,  type |-> "bool",              id |-> "file_filter"],
    [name |-> s_diff_options, type |-> "const char **",     id |-> "diff_options"] >>

OptionIds == {option_info[i].id : i \in 1..Len(option_info)}

\* find_option_info: the index of the first entry named `name', 0 for NULL
find_option_info(name) ==
    IF \E i \in 1..Len(option_info) : enum_equals(option_info[i].name, name)
    THEN CHOOSE i \in 1..Len(option_info) :
            /\ enum_equals(option_info[i].name, name)
            /\ \A j \in 1..(i - 1) : ~enum_equals(option_info[j].name, name)
    ELSE 0

\* mark_option_seen(&opt_<id>)
mark_option_seen(S, id) ==
    IF id \in OptionIds THEN [S EXCEPT !.seen[id] = TRUE] ELSE S

\* a mutant of SetValue: the value is not written
SetValue_dropped(S, id, v) == S

SetValue(S, id, v) == [S EXCEPT !.value[id] = v]

parse_option(S, option, prefix, arg) ==
    With(prefix \o option.name, LAMBDA name :
    IF streq(s_show_notes, name) THEN
        With(parse_bool(arg), LAMBDA b :
        With(parse_string(<<>>, arg), LAMBDA res :
            IF b.code = SUCCESS
            THEN [st |-> SetValue(S, option.id, b.val), code |-> SUCCESS]
            ELSE [st |-> [SetValue(S, option.id, TRUE) EXCEPT
                             !.opt_notes_arg =
                                 IF res.code = SUCCESS /\ res.val = <<>>
                                 THEN NOTES_ARG
                                 ELSE NOTES_EQ_ARG \o res.val],
                  code |-> res.code]))
    ELSE IF option.type = "bool" THEN
        With(parse_bool(arg), LAMBDA b :
            [st |-> SetValue(S, option.id, b.val), code |-> b.code])
    ELSE IF option.type = "double" THEN
        With(parse_step(arg), LAMBDA d :
            [st |-> SetValue(S, option.id, d.val), code |-> d.code])
    ELSE IF IsEnumType(option.type) THEN
        With(parse_enum(arg, find_enum_map(option.type)), LAMBDA e :
            [st |-> SetValue(S, option.id, e.val), code |-> e.code])
    ELSE IF option.type = "int" THEN
        With(parse_bool(arg), LAMBDA b :
        With(strstr(name, s_title_overflow), LAMBDA overflow :
            IF overflow /\ b.code = SUCCESS /\ ~b.val
            THEN [st |-> SetValue(S, option.id, 0), code |-> SUCCESS]
            ELSE With(IF overflow /\ b.code = SUCCESS THEN s_50 ELSE arg, LAMBDA arg2 :
                 With(IF streq(name, s_line_number_interval) \/ streq(name, s_tab_size)
                      THEN parse_int(S.value[option.id], arg2, 1, 1024)
                      ELSE IF streq(name, s_id_width)
                      THEN parse_int(S.value[option.id], arg2, 0, SIZEOF_REV - 1)
                      ELSE parse_int(S.value[option.id], arg2, 0, 1024),
                      LAMBDA r :
                        [st |-> SetValue(S, option.id, r.val), code |-> r.code]))))
    ELSE [st |-> S, code |-> error("Unhandled option: %s", <<name>>)])

(***************************************************************************)
(* Tables of the source.                                                   *)
(***************************************************************************)
s_branch == <<"b","r","a","n","c","h">>
s_refs == <<"r","e","f","s">>
s_diff_context_prefix == <<"d","i","f","f","-","c","o","n","t","e","x","t","-">>
s_down == <<"-","d","o","w","n">>
s_minus1 == <<"-","1">>
s_plus1 == <<"+","1">>
s_toggle == <<":","t","o","g","g","l","e">>
s_DEFAULT == <<"D","E","F","A","U","L","T">>
s_BLACK == <<"B","L","A","C","K">>
s_BLUE == <<"B","L","U","E">>
s_CYAN == <<"C","Y","A","N">>
s_GREEN == <<"G","R","E","E","N">>
s_MAGENTA == <<"M","A","G","E","N","T","A">>
s_RED == <<"R","E","D">>
s_WHITE == <<"W","H","I","T","E">>
s_YELLOW == <<"Y","E","L","L","O","W">>
s_NORMAL == <<"N","O","R","M","A","L">>
s_BLINK == <<"B","L","I","N","K">>
s_BOLD == <<"B","O","L","D">>
s_DIM == <<"D","I","M">>
s_REVERSE == <<"R","E","V","E","R","S","E">>
s_STANDOUT == <<"S","T","A","N","D","O","U","T">>
s_UNDERLINE == <<"U","N","D","E","R","L","I","N","E">>
k_generic == <<"g","e","n","e","r","i","c">>
k_main == <<"m","a","i","n">>
k_diff == <<"d","i","f","f">>
k_help == <<"h","e","l","p">>
k_status == <<"s","t","a","t","u","s">>
k_tree == <<"t","r","e","e">>
k_grep == <<"g","r","e","p">>
l_default == <<"d","e","f","a","u","l","t">>
l_cursor == <<"c","u","r","s","o","r">>
l_file == <<"f","i","l","e">>
l_section == <<"s","e","c","t","i","o","n">>
l_header == <<"h","e","a","d","e","r">>
l_directory == <<"d","i","r","e","c","t","o","r","y">>
l_diff_add == <<"d","i","f","f","-","a","d","d">>
r_view_refs == <<"v","i","e","w","-","r","e","f","s">>
r_view_grep == <<"v","i","e","w","-","g","r","e","p">>
r_view_main == <<"v","i","e","w","-","m","a","i","n">>
r_quit == <<"q","u","i","t">>
s_tilde_slash == <<"~","/">>

set_obsolete == <<
    <<<<"a","u","t","h","o","r","-","w","i","d","t","h">>,
      <<"a","u","t","h","o","r">>>>,
    <<<<"f","i","l","e","n","a","m","e","-","w","i","d","t","h">>,
      <<"f","i","l","e","-","n","a","m","e">>>>,
    <<<<"l","i","n","e","-","n","u","m","b","e","r","-","i","n","t","e","r","v","a","l">>,
      <<"l","i","n","e","-","n","u","m","b","e","r">>>>,
    <<<<"s","h","o","w","-","a","u","t","h","o","r">>,
      <<"a","u","t","h","o","r">>>>,
    <<<<"s","h","o","w","-","d","a","t","e">>,
      <<"d","a","t","e">>>>,
    <<<<"s","h","o","w","-","f","i","l","e","-","s","i","z","e">>,
      <<"f","i","l","e","-","s","i","z","e">>>>,
    <<<<"s","h","o","w","-","f","i","l","e","n","a","m","e">>,
      <<"f","i","l","e","-","n","a","m","e">>>>,
    <<<<"s","h","o","w","-","i","d">>,
      <<"i","d">>>>,
    <<<<"s","h","o","w","-","l","i","n","e","-","n","u","m","b","e","r","s">>,
      <<"l","i","n","e","-","n","u","m","b","e","r">>>>,
    <<<<"s","h","o","w","-","r","e","f","s">>,
      <<"c","o","m","m","i","t","-","t","i","t","l","e">>>>,
    <<<<"s","h","o","w","-","r","e","v","-","g","r","a","p","h">>,
      <<"c","o","m","m","i","t","-","t","i","t","l","e">>>>,
    <<<<"t","i","t","l","e","-","o","v","e","r","f","l","o","w">>,
      <<"c","o","m","m","i","t","-","t","i","t","l","e"," ","a","n","d"," ","t","e","x","t">>>> >>

color_obsolete == <<
    <<<<"a","c","k","e","d">>,
      <<"'"," "," "," "," ","A","c","k","e","d","-","b","y","'">>>>,
    <<<<"d","i","f","f","-","c","o","p","y","-","f","r","o","m">>,
      <<"'","c","o","p","y"," ","f","r","o","m"," ","'">>>>,
    <<<<"d","i","f","f","-","c","o","p","y","-","t","o">>,
      <<"'","c","o","p","y"," ","t","o"," ","'">>>>,
    <<<<"d","i","f","f","-","d","e","l","e","t","e","d","-","f","i","l","e","-","m","o","d","e">>,
      <<"'","d","e","l","e","t","e","d"," ","f","i","l","e"," ","m","o","d","e"," ","'">>>>,
    <<<<"d","i","f","f","-","d","i","s","s","i","m","i","l","a","r","i","t","y">>,
      <<"'","d","i","s","s","i","m","i","l","a","r","i","t","y"," ","'">>>>,
    <<<<"d","i","f","f","-","r","e","n","a","m","e","-","f","r","o","m">>,
      <<"'","r","e","n","a","m","e"," ","f","r","o","m"," ","'">>>>,
    <<<<"d","i","f","f","-","r","e","n","a","m","e","-","t","o">>,
      <<"'","r","e","n","a","m","e"," ","t","o"," ","'">>>>,
    <<<<"d","i","f","f","-","t","r","e","e">>,
      <<"'","d","i","f","f","-","t","r","e","e"," ","'">>>>,
    <<<<"f","i","l","e","n","a","m","e">>,
      <<"f","i","l","e">>>>,
    <<<<"h","e","l","p","-","k","e","y","m","a","p">>,
      <<"h","e","l","p",".","s","e","c","t","i","o","n">>>>,
    <<<<"p","p","-","a","d","a","t","e">>,
      <<"'","A","u","t","h","o","r","D","a","t","e",":"," ","'">>>>,
    <<<<"p","p","-","a","u","t","h","o","r">>,
      <<"'","A","u","t","h","o","r",":"," ","'">>>>,
    <<<<"p","p","-","c","d","a","t","e">>,
      <<"'","C","o","m","m","i","t","D","a","t","e",":"," ","'">>>>,
    <<<<"p","p","-","c","o","m","m","i","t">>,
      <<"'","C","o","m","m","i","t",":"," ","'">>>>,
    <<<<"p","p","-","d","a","t","e">>,
      <<"'","D","a","t","e",":"," ","'">>>>,
    <<<<"r","e","v","i","e","w","e","d">>,
      <<"'"," "," "," "," ","R","e","v","i","e","w","e","d","-","b","y","'">>>>,
    <<<<"s","i","g","n","o","f","f">>,
      <<"'"," "," "," "," ","S","i","g","n","e","d","-","o","f","f","-","b","y","'">>>>,
    <<<<"s","t","a","t","-","h","e","a","d">>,
      <<"s","t","a","t","u","s",".","h","e","a","d","e","r">>>>,
    <<<<"s","t","a","t","-","s","e","c","t","i","o","n">>,
      <<"s","t","a","t","u","s",".","s","e","c","t","i","o","n">>>>,
    <<<<"t","e","s","t","e","d">>,
      <<"'"," "," "," "," ","T","e","s","t","e","d","-","b","y","'">>>>,
    <<<<"t","r","e","e","-","d","i","r">>,
      <<"t","r","e","e",".","d","i","r","e","c","t","o","r","y">>>>,
    <<<<"t","r","e","e","-","f","i","l","e">>,
      <<"t","r","e","e",".","f","i","l","e">>>>,
    <<<<"t","r","e","e","-","h","e","a","d">>,
      <<"t","r","e","e",".","h","e","a","d","e","r">>>> >>

bind_obsolete == <<
    <<<<"v","i","e","w","-","b","r","a","n","c","h">>,
      <<"v","i","e","w","-","r","e","f","s">>>> >>

toggles == <<
    <<<<"d","i","f","f","-","c","o","n","t","e","x","t","-","d","o","w","n">>,
      <<"d","i","f","f","-","c","o","n","t","e","x","t">>>>,
    <<<<"d","i","f","f","-","c","o","n","t","e","x","t","-","u","p">>,
      <<"d","i","f","f","-","c","o","n","t","e","x","t">>>>,
    <<<<"t","o","g","g","l","e","-","a","u","t","h","o","r">>,
      <<"a","u","t","h","o","r","-","d","i","s","p","l","a","y">>>>,
    <<<<"t","o","g","g","l","e","-","c","h","a","n","g","e","s">>,
      <<"s","h","o","w","-","c","h","a","n","g","e","s">>>>,
    <<<<"t","o","g","g","l","e","-","c","o","m","m","i","t","-","o","r","d","e","r">>,
      <<"s","h","o","w","-","c","o","m","m","i","t","-","o","r","d","e","r">>>>,
    <<<<"t","o","g","g","l","e","-","d","a","t","e">>,
      <<"d","a","t","e","-","d","i","s","p","l","a","y">>>>,
    <<<<"t","o","g","g","l","e","-","f","i","l","e","-","f","i","l","t","e","r">>,
      <<"f","i","l","e","-","f","i","l","t","e","r">>>>,
    <<<<"t","o","g","g","l","e","-","f","i","l","e","-","s","i","z","e">>,
      <<"f","i","l","e","-","s","i","z","e","-","d","i","s","p","l","a","y">>>>,
    <<<<"t","o","g","g","l","e","-","f","i","l","e","n","a","m","e">>,
      <<"f","i","l","e","n","a","m","e","-","d","i","s","p","l","a","y">>>>,
    <<<<"t","o","g","g","l","e","-","g","r","a","p","h","i","c">>,
      <<"s","h","o","w","-","g","r","a","p","h","i","c">>>>,
    <<<<"t","o","g","g","l","e","-","i","d">>,
      <<"i","d","-","d","i","s","p","l","a","y">>>>,
    <<<<"t","o","g","g","l","e","-","i","g","n","o","r","e","-","s","p","a","c","e">>,
      <<"s","h","o","w","-","i","g","n","o","r","e","-","s","p","a","c","e">>>>,
    <<<<"t","o","g","g","l","e","-","l","i","n","e","n","o">>,
      <<"l","i","n","e","-","n","u","m","b","e","r","-","d","i","s","p","l","a","y">>>>,
    <<<<"t","o","g","g","l","e","-","r","e","f","s">>,
      <<"c","o","m","m","i","t","-","t","i","t","l","e","-","r","e","f","s">>>>,
    <<<<"t","o","g","g","l","e","-","r","e","v","-","g","r","a","p","h">>,
      <<"c","o","m","m","i","t","-","t","i","t","l","e","-","g","r","a","p","h">>>>,
    <<<<"t","o","g","g","l","e","-","s","o","r","t","-","f","i","e","l","d">>,
      <<"s","o","r","t","-","f","i","e","l","d">>>>,
    <<<<"t","o","g","g","l","e","-","s","o","r","t","-","o","r","d","e","r">>,
      <<"s","o","r","t","-","o","r","d","e","r">>>>,
    <<<<"t","o","g","g","l","e","-","t","i","t","l","e","-","o","v","e","r","f","l","o","w">>,
      <<"c","o","m","m","i","t","-","t","i","t","l","e","-","o","v","e","r","f","l","o","w">>>>,
    <<<<"t","o","g","g","l","e","-","u","n","t","r","a","c","k","e","d","-","d","i","r","s">>,
      <<"s","t","a","t","u","s","-","u","n","t","r","a","c","k","e","d","-","d","i","r","s">>>>,
    <<<<"t","o","g","g","l","e","-","v","e","r","t","i","c","a","l","-","s","p","l","i","t">>,
      <<"s","h","o","w","-","v","e","r","t","i","c","a","l","-","s","p","l","i","t">>>> >>

\* find_remapped: the index of the first row whose old name equals `arg'
\* (same length, letter case ignored); 0 stands for the source's -1
find_remapped(remapped, arg) ==
    IF \E i \in 1..Len(remapped) :
          Len(arg) = Len(remapped[i][1])
          /\ string_enum_compare(arg, remapped[i][1], Len(remapped[i][1])) = 0
    THEN CHOOSE i \in 1..Len(remapped) :
            /\ Len(arg) = Len(remapped[i][1])
            /\ string_enum_compare(arg, remapped[i][1], Len(remapped[i][1])) = 0
            /\ \A j \in 1..(i - 1) :
                  ~(Len(arg) = Len(remapped[j][1])
                    /\ string_enum_compare(arg, remapped[j][1], Len(remapped[j][1])) = 0)
    ELSE 0

(***************************************************************************)
(* argv_from_string: the value split at blanks; a token that starts with   *)
(* a quote runs to the matching quote and keeps both quotes.               *)
(***************************************************************************)
RECURSIVE skip_blanks(_, _)
skip_blanks(str, i) ==
    IF i <= Len(str) /\ isspace(str[i]) THEN skip_blanks(str, i + 1) ELSE i

get_arg_valuelen(arg) ==
    IF is_quoted(arg[1])
    THEN With(strcspn(Tail(arg), {arg[1]}), LAMBDA valuelen :
            IF valuelen > 0 /\ valuelen + 2 <= Len(arg) THEN valuelen + 2 ELSE Len(arg))
    ELSE strcspn(arg, {" ", "\t"})

RECURSIVE argv_from(_, _)
argv_from(str, i) ==
    With(skip_blanks(str, i), LAMBDA j :
        IF j > Len(str) THEN <<>>
        ELSE With(get_arg_valuelen(SubSeq(str, j, Len(str))), LAMBDA len :
                <<SubSeq(str, j, j + len - 1)>> \o argv_from(str, j + len)))

argv_from_string(str) == argv_from(str, 1)

(***************************************************************************)
(* `set'.                                                                  *)
(***************************************************************************)
\* check_view_config: the registry modelled here holds no *-view option
check_view_config(option, argv) == SUCCESS

\* parse_args: the tokens copied verbatim
parse_args(S, option, argv) ==
    [st |-> SetValue(S, option.id, argv), code |-> SUCCESS]

\* parse_ref_formats keeps its own table, which is no part of the store
parse_ref_formats(S, argv) == [st |-> S, code |-> SUCCESS]

\* the options' values at process start
InitValue == [tab_size |-> 0, diff_context |-> 0, commit_order |-> 0,
              ignore_space |-> 0, show_notes |-> FALSE, file_filter |-> FALSE,
              diff_options |-> <<>>]

\* a mutant of option_seen: an option that was assigned a value counts as seen
option_seen_once_assigned(S, option) ==
    S.seen[option.id] \/ S.value[option.id] # InitValue[option.id]

\* a mutant of option_seen: the flag is never consulted
option_seen_ignored(S, option) == FALSE

\* option->seen
option_seen(S, option) == S.seen[option.id]

option_set_command(S, argv) ==
    IF Len(argv) < 3
    THEN [st |-> S, code |-> error("Invalid set command: set option = value", <<>>)]
    ELSE IF ~streq(argv[2], s_eq)
    THEN [st |-> S, code |-> error("No value assigned to %s", <<argv[1]>>)]
    ELSE IF streq(argv[1], s_reference_format)
    THEN parse_ref_formats(S, SubSeq(argv, 3, Len(argv)))
    ELSE With(find_option_info(argv[1]), LAMBDA index :
    IF index # 0 THEN
        With(option_info[index], LAMBDA option :
        IF option_seen(S, option)
        THEN [st |-> S, code |-> SUCCESS]
        ELSE IF option.type = "const char **"
        THEN With(check_view_config(option, SubSeq(argv, 3, Len(argv))), LAMBDA code :
                IF code # SUCCESS THEN [st |-> S, code |-> code]
                ELSE parse_args(S, option, SubSeq(argv, 3, Len(argv))))
        ELSE With(parse_option(S, option, <<>>, argv[3]), LAMBDA parsed :
                IF parsed.code = SUCCESS /\ Len(argv) # 3
                THEN [st |-> parsed.st,
                      code |-> error("Option %s only takes one value", <<argv[1]>>)]
                ELSE parsed))
    ELSE With(find_remapped(set_obsolete, argv[1]), LAMBDA obsolete :
        IF obsolete # 0
        THEN [st |-> S,
              code |-> error("%s is obsolete; use the %s view column options instead",
                             <<set_obsolete[obsolete][1], set_obsolete[obsolete][2]>>)]
        ELSE [st |-> S, code |-> error("Unknown option name: %s", <<argv[1]>>)]))

(***************************************************************************)
(* Key maps, line names, colors and attributes.                            *)
(***************************************************************************)
keymaps == <<k_generic, k_main, s_refs, k_diff, k_help, k_status, k_tree, k_grep>>

\* get_keymap(name, namelen): the key map's own name, <<>> for NULL
get_keymap(name) ==
    IF \E i \in 1..Len(keymaps) : enum_equals(keymaps[i], name)
    THEN keymaps[CHOOSE i \in 1..Len(keymaps) : enum_equals(keymaps[i], name)]
    ELSE <<>>

\* the symbolic line names add_line_rule knows
line_names == <<l_default, l_cursor, l_file, l_section, l_header, l_directory, l_diff_add>>

color_map == <<
    [name |-> s_DEFAULT, value |-> 0 - 1],
    [name |-> s_BLACK,   value |-> 0],
    [name |-> s_BLUE,    value |-> 4],
    [name |-> s_CYAN,    value |-> 6],
    [name |-> s_GREEN,   value |-> 2],
    [name |-> s_MAGENTA, value |-> 5],
    [name |-> s_RED,     value |-> 1],
    [name |-> s_WHITE,   value |-> 7],
    [name |-> s_YELLOW,  value |-> 3] >>

attr_map == <<
    [name |-> s_NORMAL,    value |-> 0],
    [name |-> s_BLINK,     value |-> 524288],
    [name |-> s_BOLD,      value |-> 2097152],
    [name |-> s_DIM,       value |-> 1048576],
    [name |-> s_REVERSE,   value |-> 262144],
    [name |-> s_STANDOUT,  value |-> 65536],
    [name |-> s_UNDERLINE, value |-> 131072] >>

\* a | b on non-negative integers
RECURSIVE BitOr(_, _)
BitOr(a, b) ==
    IF a = 0 THEN b
    ELSE IF b = 0 THEN a
    ELSE (IF a % 2 = 1 \/ b % 2 = 1 THEN 1 ELSE 0) + 2 * BitOr(a \div 2, b \div 2)

\* set_attribute(attr, name)
set_attribute(name) ==
    With(map_enum_index(attr_map, name), LAMBDA i :
        [ok |-> i # 0, val |-> IF i # 0 THEN attr_map[i].value ELSE 0])

set_color(old, name) ==
    With(map_enum_index(color_map, name), LAMBDA i :
        IF i # 0 THEN [ok |-> TRUE, val |-> color_map[i].value]
        ELSE With(IF has_prefix(name, s_color)
                  THEN parse_int(old, skip(name, 5), 0, 255)
                  ELSE parse_int(old, name, 0, 255),
                  LAMBDA r : [ok |-> r.code = SUCCESS, val |-> r.val]))

(***************************************************************************)
(* Style rules.  A rule is keyed by (prefix, selector); the prefix is a    *)
(* key map's name or <<>> for none, the selector a line name or a quoted   *)
(* text.                                                                   *)
(***************************************************************************)
NoRule == [kind |-> "none", text |-> <<>>]

\* parse_color_name(color, rule, prefix_ptr); keep is the source passing a
\* NULL prefix_ptr
parse_color_name(color, prefix, keep) ==
    With(IF is_quoted(color[1]) THEN 0
         ELSE IF strchr(color, ".") THEN strcspn(color, {"."}) + 1 ELSE 0, LAMBDA dot :
    With(get_keymap(SubSeq(color, 1, dot - 1)), LAMBDA keymap :
    With(IF dot # 0 THEN skip(color, dot) ELSE color, LAMBDA rest :
        IF dot # 0 /\ keymap = <<>>
        THEN [code |-> error("Unknown key map: %.*s", <<SubSeq(color, 1, dot - 1)>>),
              rule |-> NoRule, prefix |-> prefix]
        ELSE [code |-> SUCCESS,
              rule |-> IF rest # <<>> /\ is_quoted(rest[1])
                       THEN [kind |-> "line", text |-> SubSeq(rest, 2, Len(rest) - 1)]
                       ELSE [kind |-> "name", text |-> rest],
              prefix |-> IF dot # 0 /\ ~keep THEN keymap ELSE prefix])))

line_name_index(name) ==
    With({i \in 1..Len(line_names) : enum_equals(line_names[i], name)}, LAMBDA found :
        IF found = {} THEN 0 ELSE CHOOSE i \in found : TRUE)

RuleKey(prefix, rule) ==
    [prefix |-> prefix, kind |-> rule.kind,
     sel |-> IF rule.kind = "name" THEN line_names[line_name_index(rule.text)]
             ELSE rule.text]

\* add_line_rule(prefix, query): the rule for (prefix, selector), made with a
\* zeroed line_info when it is new; none when a symbolic name is unknown
add_line_rule(S, prefix, rule) ==
    IF rule.kind = "none"
       \/ (rule.kind = "name" /\ (rule.text = <<>> \/ line_name_index(rule.text) = 0))
    THEN [found |-> FALSE, key |-> [prefix |-> prefix, kind |-> "none", sel |-> <<>>],
          st |-> S]
    ELSE With(RuleKey(prefix, rule), LAMBDA key :
            [found |-> TRUE, key |-> key,
             st |-> IF key \in DOMAIN S.rules THEN S
                    ELSE [S EXCEPT !.rules =
                            [k \in DOMAIN S.rules \cup {key} |->
                                IF k = key THEN [fg |-> 0, bg |-> 0, attr |-> 0]
                                ELSE S.rules[k]]]])

\* the loop over the trailing attribute names, last name first
RECURSIVE attr_loop(_, _, _)
attr_loop(argv, argc, attr) ==
    IF ~(argc > 3) THEN [ok |-> TRUE, attr |-> attr, bad |-> <<>>]
    ELSE With(set_attribute(argv[argc]), LAMBDA a :
            IF ~a.ok THEN [ok |-> FALSE, attr |-> attr, bad |-> argv[argc]]
            ELSE attr_loop(argv, argc - 1, BitOr(attr, a.val)))


(***************************************************************************)
(* `color'.                                                                *)
(***************************************************************************)
SetRule(S, key, field, v) == [S EXCEPT !.rules[key][field] = v]

\* lines 376-391 of option_color_command: the colors and attributes written
\* into the rule `key', `code' being the status so far
color_apply(S, key, argv, code) ==
    With(set_color(S.rules[key].fg, argv[2]), LAMBDA fg :
    IF ~fg.ok THEN [st |-> S, code |-> error("Unknown color: %s", <<argv[2]>>)]
    ELSE
    With(SetRule(S, key, "fg", fg.val), LAMBDA S1 :
    With(set_color(S.rules[key].bg, argv[3]), LAMBDA bg :
    IF ~bg.ok THEN [st |-> S1, code |-> error("Unknown color: %s", <<argv[3]>>)]
    ELSE
    With(attr_loop(argv, Len(argv), 0), LAMBDA at :
    With(SetRule(SetRule(S1, key, "bg", bg.val), key, "attr", at.attr), LAMBDA S3 :
    IF ~at.ok
    THEN [st |-> S3, code |-> error("Unknown color attribute: %s", <<at.bad>>)]
    ELSE [st |-> S3, code |-> code])))))

\* a mutant of color_remap_prefix: the prefix of the new name always wins
color_remap_prefix_dropped(prefix) == FALSE

\* `prefix ? NULL : &prefix': the initial prefix is kept when one was given
color_remap_prefix(prefix) == prefix # <<>>

\* lines 327-374 of option_color_command: the rule the selector names, through
\* the obsolete-name table when the name is unknown
color_resolve(S, argv) ==
    With(parse_color_name(argv[1], <<>>, FALSE), LAMBDA p :
    With(add_line_rule(S, p.prefix, p.rule), LAMBDA info :
    IF p.code # SUCCESS THEN [ok |-> FALSE, key |-> info.key, st |-> S, code |-> p.code]
    ELSE IF info.found
    THEN [ok |-> TRUE, key |-> info.key, st |-> info.st, code |-> SUCCESS]
    ELSE
    With(find_remapped(color_obsolete, p.rule.text), LAMBDA index :
    IF index = 0
    THEN [ok |-> FALSE, key |-> info.key, st |-> S,
          code |-> error("Unknown color name: %s", <<argv[1]>>)]
    ELSE
    With(parse_color_name(color_obsolete[index][2], p.prefix,
                          color_remap_prefix(p.prefix)), LAMBDA q :
    IF q.code # SUCCESS THEN [ok |-> FALSE, key |-> info.key, st |-> S, code |-> q.code]
    ELSE
    With(add_line_rule(S, q.prefix, q.rule), LAMBDA info2 :
    IF ~info2.found
    THEN [ok |-> FALSE, key |-> info.key, st |-> S,
          code |-> error("Unknown color name: %s", <<argv[1]>>)]
    ELSE [ok |-> TRUE, key |-> info2.key, st |-> info2.st,
          code |-> error("%s has been replaced by %s",
                         <<color_obsolete[index][1], color_obsolete[index][2]>>)])))))

option_color_command(S, argv) ==
    IF Len(argv) < 3
    THEN [st |-> S,
          code |-> error("Invalid color mapping: color area fgcolor bgcolor [attrs]", <<>>)]
    ELSE With(color_resolve(S, argv), LAMBDA t :
            IF ~t.ok THEN [st |-> S, code |-> t.code]
            ELSE color_apply(t.st, t.key, argv, t.code))

(***************************************************************************)
(* `bind'.                                                                 *)
(***************************************************************************)
\* ARRAY_SIZE(key) of `struct key key[1]'
key_array_size == 1

\* the request names get_request knows
requests == <<r_view_refs, r_view_grep, r_view_main, r_quit>>

\* get_request(name): the request's own name, <<>> for REQ_UNKNOWN
get_request(name) ==
    IF \E i \in 1..Len(requests) : enum_equals(requests[i], name)
    THEN requests[CHOOSE i \in 1..Len(requests) : enum_equals(requests[i], name)]
    ELSE <<>>

\* the key names get_key_value knows
key_names == {<<"<","E","n","t","e","r",">">>, <<"<","F","5",">">>}

\* get_key_value(&key_arg, &key): one key decoded from the head of key_arg, a
\* single character or a <Name>; `rest' is the advanced cursor
get_key_value(key_arg) ==
    With(strcspn(key_arg, {">"}) + 1, LAMBDA close :
        IF key_arg[1] = "<" /\ Len(key_arg) > 1
        THEN IF close <= Len(key_arg) /\ SubSeq(key_arg, 1, close) \in key_names
             THEN [ok |-> TRUE, key |-> SubSeq(key_arg, 1, close),
                   rest |-> skip(key_arg, close)]
             ELSE [ok |-> FALSE, key |-> <<>>, rest |-> key_arg]
        ELSE [ok |-> TRUE, key |-> <<key_arg[1]>>, rest |-> Tail(key_arg)])

\* the loop of lines 644-647: up to key_array_size keys decoded from key_arg
RECURSIVE key_loop(_, _)
key_loop(key_arg, key) ==
    IF key_arg = <<>> \/ ~(Len(key) < key_array_size)
    THEN [ok |-> TRUE, key |-> key, rest |-> key_arg]
    ELSE With(get_key_value(key_arg), LAMBDA k :
            IF ~k.ok THEN [ok |-> FALSE, key |-> key, rest |-> key_arg]
            ELSE key_loop(k.rest, Append(key, k.key)))

Bind(S, keymap, key, binding) ==
    [S EXCEPT !.keybindings =
        [k \in DOMAIN S.keybindings \cup {<<keymap, key>>} |->
            IF k = <<keymap, key>> THEN binding ELSE S.keybindings[k]]]

\* add_keybinding(keymap, request, key, keys)
add_keybinding(S, keymap, request, key) ==
    [st |-> Bind(S, keymap, key, [kind |-> "request", req |-> request, argv |-> <<>>]),
     code |-> SUCCESS]

\* add_run_request(keymap, key, keys, argv)
add_run_request(S, keymap, key, argv) ==
    [st |-> Bind(S, keymap, key, [kind |-> "run", req |-> <<>>, argv |-> argv]),
     code |-> SUCCESS]

\* a mutant of bind_fallback_keymap: every unknown scope falls back to refs
bind_fallback_keymap_any(name) == get_keymap(s_refs)

\* lines 638-639: the key map used when the scope names none
bind_fallback_keymap(name) ==
    IF streq(name, s_branch) THEN get_keymap(s_refs) ELSE <<>>

\* a mutant of toggle_arg: the two diff-context directions swapped
toggle_arg_swapped(action) ==
    IF ~has_prefix(action, s_diff_context_prefix) THEN <<>>
    ELSE IF strstr(action, s_down) THEN <<s_plus1>> ELSE <<s_minus1>>

\* lines 693-694: the third argument of the synthetic :toggle command
toggle_arg(action) ==
    IF ~has_prefix(action, s_diff_context_prefix) THEN <<>>
    ELSE IF strstr(action, s_down) THEN <<s_minus1>> ELSE <<s_plus1>>

option_bind_command(S, argv) ==
    IF Len(argv) < 3
    THEN [st |-> S, code |-> error("Invalid key binding: bind keymap key action", <<>>)]
    ELSE
    With(get_keymap(argv[1]), LAMBDA km :
    With(IF km # <<>> THEN km ELSE bind_fallback_keymap(argv[1]), LAMBDA keymap :
    IF keymap = <<>>
    THEN [st |-> S, code |-> error("Unknown key map: %s", <<argv[1]>>)]
    ELSE
    With(key_loop(argv[2], <<>>), LAMBDA keys :
    IF ~keys.ok
    THEN [st |-> S, code |-> error("Unknown key combo: %s", <<argv[2]>>)]
    ELSE IF keys.rest # <<>> /\ Len(keys.key) = key_array_size
    THEN [st |-> S,
          code |-> error("Max %zu keys are allowed in key combos: %s", <<argv[2]>>)]
    ELSE
    With(get_request(argv[3]), LAMBDA request :
    With(find_remapped(bind_obsolete, argv[3]), LAMBDA alias :
    With(find_remapped(toggles, argv[3]), LAMBDA toggle :
    IF request = <<>> /\ alias # 0
    THEN [st |-> add_keybinding(S, keymap, get_request(bind_obsolete[alias][2]),
                                keys.key).st,
          code |-> error("%s has been renamed to %s",
                         <<bind_obsolete[alias][1], bind_obsolete[alias][2]>>)]
    ELSE IF request = <<>> /\ toggle # 0
    THEN With(toggle_arg(toggles[toggle][1]), LAMBDA arg :
         With(add_run_request(S, keymap, keys.key,
                              <<s_toggle, toggles[toggle][2]>> \o arg), LAMBDA run :
            [st |-> run.st,
             code |-> IF run.code = SUCCESS
                      THEN error("%s has been replaced by `:toggle %s%s%s'",
                                 <<toggles[toggle][1], toggles[toggle][2]>> \o arg)
                      ELSE run.code]))
    ELSE IF request = <<>>
    THEN add_run_request(S, keymap, keys.key, SubSeq(argv, 3, Len(argv)))
    ELSE add_keybinding(S, keymap, request, keys.key)))))))


(***************************************************************************)
(* `source' and the loader.                                                *)
(***************************************************************************)
p_inc == <<"i","n","c">>
p_bad == <<"b","a","d">>
p_gone == <<"g","o","n","e">>
p_system == <<"/","e","t","c","/","t","i","g","r","c">>
p_user == <<"~","/",".","t","i","g","r","c">>
p_home == <<"/","h","o","m","e","/","u">>
p_custom == <<"/","t","m","p","/","r","c">>
s_frob == <<"f","r","o","b">>
s_x == <<"x">>
s_2 == <<"2">>
s_4 == <<"4">>
s_8 == <<"8">>

\* a line as io_load hands it to read_option: the text before the first run
\* of blanks, and the text after it
Line(opt, toks) == [opt |-> opt, value |-> Join(toks)]

\* the files `source' can name in this model
IncludeFS(path) ==
    IF path = p_inc
    THEN [exists |-> TRUE, lines |-> <<Line(s_set, <<s_tab_size, s_eq, s_2>>)>>]
    ELSE IF path = p_bad
    THEN [exists |-> TRUE, lines |-> <<Line(s_frob, <<s_x>>)>>]
    ELSE [exists |-> FALSE, lines |-> <<>>]

\* lines 801-811 of load_option_file: the path that will be opened
open_option_file(path, home) ==
    IF path.null \/ path.str = <<>> THEN [kind |-> "noop", path |-> <<>>]
    ELSE IF has_prefix(path.str, s_tilde_slash)
    THEN IF home.null
         THEN [kind |-> "nohome", path |-> <<>>]
         ELSE [kind |-> "path", path |-> home.str \o <<"/">> \o skip(path.str, 2)]
    ELSE [kind |-> "path", path |-> path.str]

\* a mutant of read_option_return: a failed line stops the pass
read_option_return_err(status) == IF status # SUCCESS THEN "ERR" ELSE "OK"

\* line 791: what read_option returns to io_load
read_option_return(status) == "OK"

SKIPPED == [code |-> "SKIPPED", fmt |-> "", args |-> <<>>]

RECURSIVE load_option_file(_, _)

option_source_command(S, argv) ==
    IF Len(argv) < 1
    THEN [st |-> S, code |-> error("Invalid source command: source path", <<>>)]
    ELSE With(load_option_file(S, Str(argv[1])), LAMBDA r :
            IF r.code = ERROR_FILE_DOES_NOT_EXIST
            THEN [st |-> r.st, code |-> error("File does not exist: %s", <<argv[1]>>)]
            ELSE r)

set_option(S, opt, argv) ==
    IF streq(opt, s_color) THEN option_color_command(S, argv)
    ELSE IF streq(opt, s_set) THEN option_set_command(S, argv)
    ELSE IF streq(opt, s_bind) THEN option_bind_command(S, argv)
    ELSE IF streq(opt, s_source) THEN option_source_command(S, argv)
    ELSE [st |-> S, code |-> error("Unknown option command: %s", <<opt>>)]

\* read_option(opt, optlen, value, valuelen, config)
read_option(S, config, line) ==
    With([config EXCEPT !.lineno = @ + 1], LAMBDA c1 :
    With(strcspn(line.opt, {"#"}), LAMBDA optlen :
    IF optlen = 0
    THEN [st |-> S, config |-> [c1 EXCEPT !.log = Append(@, SKIPPED)], ret |-> "OK",
          argv |-> <<>>]
    ELSE
    With(IF optlen = Len(line.opt)
         THEN argv_from_string(SubSeq(line.value, 1, strcspn(line.value, {"#"})))
         ELSE <<>>, LAMBDA argv :
    With(IF optlen = Len(line.opt)
         THEN set_option(S, line.opt, argv)
         ELSE [st |-> S, code |-> ERROR_NO_OPTION_VALUE], LAMBDA r :
        [st |-> r.st,
         config |-> [c1 EXCEPT !.errors = IF r.code # SUCCESS THEN TRUE ELSE @,
                               !.log = Append(@, r.code)],
         ret |-> read_option_return(r.code),
         argv |-> argv]))))

\* io_load: read_option on each line in turn, for as long as it returns OK
RECURSIVE io_load(_, _, _)
io_load(S, config, lines) ==
    IF config.lineno >= Len(lines) THEN [st |-> S, config |-> config, ret |-> "OK"]
    ELSE With(read_option(S, config, lines[config.lineno + 1]), LAMBDA r :
            IF r.ret # "OK" THEN [st |-> r.st, config |-> r.config, ret |-> "ERR"]
            ELSE io_load(r.st, r.config, lines))

NewConfig(path) == [path |-> path, lineno |-> 0, errors |-> FALSE, log |-> <<>>]

\* load_option_file(path), run to its end: the form `source' calls.  The
\* warnings it prints are no part of the store.
load_option_file(S, path) ==
    With(open_option_file(path, env.home), LAMBDA o :
        IF o.kind = "noop" THEN [st |-> S, code |-> SUCCESS]
        ELSE IF o.kind = "nohome"
        THEN [st |-> S,
              code |-> error("Failed to expand ~ to user home directory", <<>>)]
        ELSE With(IncludeFS(o.path), LAMBDA f :
                IF ~f.exists THEN [st |-> S, code |-> ERROR_FILE_DOES_NOT_EXIST]
                ELSE [st |-> io_load(S, NewConfig(o.path), f.lines).st,
                      code |-> SUCCESS]))


(***************************************************************************)
(* update_options_from_argv.                                               *)
(***************************************************************************)
\* one turn of the loop on `flag': id is the option the flag set, "none" when
\* the flag is kept in argv
argv_flag(S, flag) ==
    With(map_enum_index(commit_order_arg_map, flag), LAMBDA order :
    IF order # 0
    THEN [id |-> "commit_order",
          st |-> mark_option_seen(
                    SetValue(S, "commit_order", commit_order_arg_map[order].value),
                    "commit_order")]
    ELSE
    With(map_enum_index(ignore_space_arg_map, flag), LAMBDA space :
    IF space # 0
    THEN [id |-> "ignore_space",
          st |-> mark_option_seen(
                    SetValue(S, "ignore_space", ignore_space_arg_map[space].value),
                    "ignore_space")]
    ELSE IF streq(flag, f_no_notes)
    THEN [id |-> "show_notes",
          st |-> mark_option_seen(SetValue(S, "show_notes", FALSE), "show_notes")]
    ELSE IF has_prefix(flag, NOTES_ARG) \/ has_prefix(flag, f_notes)
    THEN [id |-> "show_notes",
          st |-> mark_option_seen(
                    [SetValue(S, "show_notes", TRUE) EXCEPT !.opt_notes_arg = flag],
                    "show_notes")]
    ELSE
    With(parse_int(S.value.diff_context, skip(flag, 2), 0, 999999), LAMBDA context :
    IF has_prefix(flag, f_U) /\ context.code = SUCCESS
    THEN [id |-> "diff_context",
          st |-> mark_option_seen(SetValue(S, "diff_context", context.val),
                                  "diff_context")]
    ELSE [id |-> "none", st |-> S])))

\* the whole loop: the store, the flags left in argv and the options set
RECURSIVE update_options_from_argv(_, _)
update_options_from_argv(S, argv) ==
    IF argv = <<>> THEN [st |-> S, argv |-> <<>>, ids |-> {}]
    ELSE With(argv_flag(S, Head(argv)), LAMBDA f :
         With(update_options_from_argv(f.st, Tail(argv)), LAMBDA r :
            [st |-> r.st,
             argv |-> IF f.id = "none" THEN <<Head(argv)>> \o r.argv ELSE r.argv,
             ids |-> IF f.id = "none" THEN r.ids ELSE r.ids \cup {f.id}]))

(***************************************************************************)
(* The keys of the external tool's configuration.                          *)
(***************************************************************************)
s_tig_color == <<"t","i","g",".","c","o","l","o","r",".">>
s_tig_bind == <<"t","i","g",".","b","i","n","d",".">>
s_tig == <<"t","i","g",".">>
s_diff_context_key == <<"d","i","f","f",".","c","o","n","t","e","x","t">>

\* set_repo_config_option(name, value, cmd): verb is the command run
set_repo_config_option(S, name, val, verb) ==
    With((IF verb = s_set THEN <<name, s_eq>> ELSE <<name>>) \o argv_from_string(val),
         LAMBDA argv :
    With(set_option(S, verb, argv), LAMBDA r :
        [st |-> r.st, code |-> r.code, verb |-> verb, argv |-> argv]))

\* read_repo_config_option(name, namelen, value, valuelen, data), for the keys
\* that reach the option registry, the style rules or the key bindings
read_repo_config_option(S, name, val) ==
    IF has_prefix(name, s_tig_color) \/ has_prefix(name, s_tig_bind)
       \/ has_prefix(name, s_tig)
    THEN set_repo_config_option(
            S,
            IF has_prefix(name, s_tig_color) THEN skip(name, 10)
            ELSE IF has_prefix(name, s_tig_bind) THEN skip(name, 9)
            ELSE skip(name, 4),
            val,
            IF has_prefix(name, s_tig_color) THEN s_color
            ELSE IF has_prefix(name, s_tig_bind) THEN s_bind
            ELSE s_set)
    ELSE IF streq(name, s_diff_context_key)
    THEN [st |-> IF ~S.seen.diff_context
                 THEN SetValue(S, "diff_context", 0 - atoi(val))
                 ELSE S,
          code |-> SUCCESS, verb |-> <<>>, argv |-> <<name, val>>]
    ELSE [st |-> S, code |-> SUCCESS, verb |-> <<>>, argv |-> <<name, val>>]

(***************************************************************************)
(* The state.                                                              *)
(***************************************************************************)
Store == [value |-> value, seen |-> seen, opt_notes_arg |-> opt_notes_arg,
          rules |-> rules, keybindings |-> keybindings]

SetStore(S) ==
    /\ value' = S.value
    /\ seen' = S.seen
    /\ opt_notes_arg' = S.opt_notes_arg
    /\ rules' = S.rules
    /\ keybindings' = S.keybindings

NoPass == [active |-> FALSE, opened |-> FALSE, src |-> "none", file |-> <<>>,
           ret |-> "OK", config |-> NewConfig(<<>>), result |-> SUCCESS,
           warned |-> FALSE]

NoLast == [op |-> "none", verb |-> <<>>, argv |-> <<>>, code |-> SUCCESS]

EmptyMap == [k \in {} |-> 0]

Init ==
    /\ value = InitValue
    /\ seen = [id \in OptionIds |-> FALSE]
    /\ opt_notes_arg = NOTES_ARG
    /\ rules = EmptyMap
    /\ keybindings = EmptyMap
    /\ pass = NoPass
    /\ phase = "idle"
    /\ env = [tigrc_system |-> Null, tigrc_user |-> Null, home |-> Null,
              tig_diff_opts |-> Null, diff_opts_from_args |-> FALSE]
    /\ last = NoLast
    /\ cmdline = EmptyMap
    /\ colorlog = EmptyMap
    /\ passlog = <<>>
    /\ ops = 0

\* every file of at most n lines over the lines of Vocab
RECURSIVE FilesUpTo(_, _)
FilesUpTo(Vocab, n) ==
    IF n = 0 THEN {<<>>}
    ELSE LET shorter == FilesUpTo(Vocab, n - 1)
         IN shorter \cup {Append(f, l) : f \in shorter, l \in Vocab}

(***************************************************************************)
(* load_options, one step per source opened, line read and source ended.   *)
(***************************************************************************)
\* lines 833-844: the environment is read, file-filter and diff-context reset
LoadOptionsStart(Envs, From) ==
    /\ phase \in From
    /\ ops < MaxOps
    /\ ops' = ops + 1
    /\ \E e \in Envs :
          env' = [e EXCEPT !.diff_opts_from_args = value.diff_options # <<>>]
    /\ value' = [value EXCEPT !.file_filter = TRUE,
                              !.diff_context = IF seen.diff_context THEN @ ELSE 0 - 3]
    /\ phase' = "open_system"
    /\ pass' = NoPass
    /\ passlog' = <<>>
    /\ last' = [NoLast EXCEPT !.op = "load_options"]
    /\ UNCHANGED <<seen, opt_notes_arg, rules, keybindings, cmdline, colorlog>>

SourcePath ==
    IF phase = "open_system"
    THEN IF env.tigrc_system.null THEN Str(p_system) ELSE env.tigrc_system
    ELSE IF env.tigrc_user.null THEN Str(p_user) ELSE env.tigrc_user

SourceName == IF phase = "open_system" THEN "system" ELSE "user"

\* what opening the path of load_option_file can come to: no file is opened
\* and a status returned, or one of Files is open
OpenResults(o, Files) ==
    IF o.kind = "noop" THEN {[open |-> FALSE, code |-> SUCCESS, file |-> <<>>]}
    ELSE IF o.kind = "nohome"
    THEN {[open |-> FALSE, file |-> <<>>,
           code |-> error("Failed to expand ~ to user home directory", <<>>)]}
    ELSE {[open |-> FALSE, code |-> ERROR_FILE_DOES_NOT_EXIST, file |-> <<>>],
          [open |-> FALSE, code |-> error("Error loading file %s: %s", <<o.path>>),
           file |-> <<>>]}
         \cup {[open |-> TRUE, code |-> SUCCESS, file |-> f] : f \in Files}

\* load_option_file over `src' returned `code': the pass is kept as it ended
Returned(p, src, code, warned) ==
    /\ pass' = [p EXCEPT !.active = FALSE, !.src = src, !.result = code,
                         !.warned = warned]
    /\ passlog' = Append(passlog, [src |-> src, code |-> code.code])
    /\ phase' = IF src = "system" THEN "after_system" ELSE "finish"

\* lines 797-820 of load_option_file for the system and the user file: the
\* path is expanded and opened
OpenFile(Files) ==
    /\ phase \in {"open_system", "open_user"}
    /\ \E res \in OpenResults(open_option_file(SourcePath, env.home), Files) :
          IF res.open
          THEN /\ pass' = [NoPass EXCEPT !.active = TRUE, !.opened = TRUE,
                                         !.src = SourceName, !.file = res.file,
                                         !.config = NewConfig(SourcePath.str)]
               /\ phase' = SourceName
               /\ passlog' = passlog
          ELSE Returned(NoPass, SourceName, res.code, FALSE)
    /\ UNCHANGED <<value, seen, opt_notes_arg, rules, keybindings, env, last,
                   cmdline, colorlog, ops>>

\* io_load calls read_option on the next line of the source
ReadOption ==
    /\ pass.active
    /\ pass.ret = "OK"
    /\ pass.config.lineno < Len(pass.file)
    /\ With(read_option(Store, pass.config, pass.file[pass.config.lineno + 1]),
            LAMBDA r :
          /\ SetStore(r.st)
          /\ pass' = [pass EXCEPT !.config = r.config, !.ret = r.ret]
          /\ last' = [op |-> "read_option",
                      verb |-> pass.file[pass.config.lineno + 1].opt,
                      argv |-> r.argv,
                      code |-> r.config.log[Len(r.config.log)]])
    /\ UNCHANGED <<phase, env, cmdline, colorlog, passlog, ops>>

\* io_load has returned: read_option stopped it, or no line is left
PassOver == pass.active /\ (pass.ret # "OK" \/ pass.config.lineno >= Len(pass.file))

\* lines 822-825: io_load is over, the aggregate warning, SUCCESS
EndFile ==
    /\ phase \in {"system", "user"}
    /\ PassOver
    /\ Returned(pass, pass.src, SUCCESS, pass.ret = "ERR" \/ pass.config.errors)
    /\ UNCHANGED <<value, seen, opt_notes_arg, rules, keybindings, env, last,
                   cmdline, colorlog, ops>>

\* a mutant of builtin_wanted: the built-in block is loaded whenever the system
\* file is missing
builtin_wanted_any(result, custom_tigrc_system) == result = ERROR_FILE_DOES_NOT_EXIST

\* line 846: whether the built-in block is loaded
builtin_wanted(result, custom_tigrc_system) ==
    result = ERROR_FILE_DOES_NOT_EXIST /\ ~custom_tigrc_system

s_builtin == <<"<","b","u","i","l","t","-","i","n",">">>

\* lines 846-850: after the system file, the built-in block or the user file
AfterSystem(Builtins) ==
    /\ phase = "after_system"
    /\ IF builtin_wanted(pass.result, ~env.tigrc_system.null)
       THEN /\ \E f \in Builtins :
                  pass' = [NoPass EXCEPT !.active = TRUE, !.opened = TRUE,
                                         !.src = "builtin", !.file = f,
                                         !.config = NewConfig(s_builtin)]
            /\ phase' = "builtin"
       ELSE /\ pass' = NoPass
            /\ phase' = "open_user"
    /\ UNCHANGED <<value, seen, opt_notes_arg, rules, keybindings, env, last,
                   cmdline, colorlog, passlog, ops>>

\* lines 851-853: die("Error in built-in config") when a line failed.
\* `!io_load(...) == ERR' compares 0 or 1 with ERR and is never true.
EndBuiltin ==
    /\ phase = "builtin"
    /\ PassOver
    /\ passlog' = Append(passlog,
                         [src |-> "builtin",
                          code |-> IF pass.config.errors THEN "DIED" ELSE "SUCCESS"])
    /\ phase' = IF pass.config.errors THEN "died" ELSE "open_user"
    /\ pass' = [pass EXCEPT !.active = FALSE]
    /\ UNCHANGED <<value, seen, opt_notes_arg, rules, keybindings, env, last,
                   cmdline, colorlog, ops>>

\* lines 860-872: TIG_DIFF_OPTS replaces diff-options unless they were given
LoadOptionsFinish ==
    /\ phase = "finish"
    /\ value' = IF ~env.diff_opts_from_args /\ ~env.tig_diff_opts.null
                   /\ env.tig_diff_opts.str # <<>>
                THEN [value EXCEPT
                         !.diff_options = argv_from_string(env.tig_diff_opts.str)]
                ELSE value
    /\ phase' = "done"
    /\ UNCHANGED <<seen, opt_notes_arg, rules, keybindings, pass, env, last,
                   cmdline, colorlog, passlog, ops>>

(***************************************************************************)
(* The calls made outside a load.                                          *)
(***************************************************************************)
UpdateOptionsFromArgv(Argvs) ==
    /\ phase \in {"idle", "done"}
    /\ ops < MaxOps
    /\ ops' = ops + 1
    /\ \E argv \in Argvs :
          With(update_options_from_argv(Store, argv), LAMBDA r :
            /\ SetStore(r.st)
            /\ cmdline' = [id \in DOMAIN cmdline \cup r.ids |->
                              IF id \in r.ids
                              THEN [value |-> r.st.value[id],
                                    notes |-> IF id = "show_notes"
                                              THEN r.st.opt_notes_arg ELSE <<>>]
                              ELSE cmdline[id]]
            /\ last' = [op |-> "update_options_from_argv", verb |-> <<>>,
                        argv |-> r.argv, code |-> SUCCESS])
    /\ UNCHANGED <<pass, phase, env, colorlog, passlog>>

\* a deprecation notice: the status of a command that was applied under a new
\* name
IsDeprecation(code) ==
    code.fmt \in {"%s has been replaced by %s", "%s has been renamed to %s",
                  "%s has been replaced by `:toggle %s%s%s'"}

Applied(code) == code = SUCCESS \/ IsDeprecation(code)

\* the attributes named by toks, ORed
RECURSIVE OrAll(_)
OrAll(toks) ==
    IF toks = <<>> THEN 0 ELSE BitOr(set_attribute(Head(toks)).val, OrAll(Tail(toks)))

\* what a `color' command asks of its rule
Wanted(argv) ==
    [fg |-> set_color(0, argv[2]).val, bg |-> set_color(0, argv[3]).val,
     attr |-> OrAll(SubSeq(argv, 4, Len(argv)))]

\* history of the `color' commands: for the rule a command names, what the
\* most recent applied command for it asked
LogColor(log, S, r) ==
    IF r.verb # s_color \/ Len(r.argv) < 3 \/ ~Applied(r.code) THEN log
    ELSE With(color_resolve(S, r.argv).key, LAMBDA key :
            [k \in DOMAIN log \cup {key} |->
                IF k = key THEN Wanted(r.argv) ELSE log[k]])

\* io_run_load calls read_repo_config_option on one key of the configuration
ReadRepoConfigOption(Keys, Max) ==
    /\ phase \in {"idle", "done"}
    /\ ops < Max
    /\ ops' = ops + 1
    /\ \E kv \in Keys :
          With(read_repo_config_option(Store, kv.name, kv.value), LAMBDA r :
            /\ SetStore(r.st)
            /\ last' = [op |-> "read_repo_config_option", verb |-> r.verb,
                        argv |-> r.argv, code |-> r.code]
            /\ colorlog' = LogColor(colorlog, Store, r))
    /\ UNCHANGED <<pass, phase, env, cmdline, passlog>>

(***************************************************************************)
(* The sources of configuration read in the load specification.            *)
(***************************************************************************)
s_acked == <<"a","c","k","e","d">>
s_red == <<"r","e","d">>
s_blue == <<"b","l","u","e">>
s_g == <<"g">>
s_t == <<"t">>
s_view_branch == <<"v","i","e","w","-","b","r","a","n","c","h">>
s_toggle_author == <<"t","o","g","g","l","e","-","a","u","t","h","o","r">>

L_tab4 == Line(s_set, <<s_tab_size, s_eq, s_4>>)
L_tab8 == Line(s_set, <<s_tab_size, s_eq, s_8>>)
L_acked == Line(s_color, <<s_acked, s_red, s_blue>>)
L_view_branch == Line(s_bind, <<k_main, s_g, s_view_branch>>)
L_toggle_author == Line(s_bind, <<k_main, s_t, s_toggle_author>>)
L_comment == Line(<<"#">>, <<s_x>>)
L_source_inc == Line(s_source, <<p_inc>>)
L_frob == Line(s_frob, <<s_x>>)

LoadLines == {L_tab4, L_tab8, L_acked, L_view_branch, L_toggle_author,
              L_comment, L_source_inc, L_frob}

LoadFiles == FilesUpTo(LoadLines, MaxLines)

LoadEnvs == [tigrc_system : {Null, Str(p_custom)}, tigrc_user : {Null},
             home : {Null, Str(p_home)}, tig_diff_opts : {Null},
             diff_opts_from_args : {FALSE}]

LoadNext ==
    \/ LoadOptionsStart(LoadEnvs, {"idle"})
    \/ OpenFile(LoadFiles)
    \/ ReadOption
    \/ EndFile
    \/ AfterSystem(LoadFiles)
    \/ EndBuiltin
    \/ LoadOptionsFinish

\* one run of load_options over every system, built-in and user source of at
\* most MaxLines lines
Spec == Init /\ [][LoadNext]_vars

(***************************************************************************)
(* Properties of the load specification.                                   *)
(***************************************************************************)
TwoSets == <<L_tab4, L_tab8>>

Deprecated == {L_acked, L_view_branch, L_toggle_author}

AckedKey == [prefix |-> <<>>, kind |-> "line",
             sel |-> <<" "," "," "," ","A","c","k","e","d","-","b","y">>]

\* C6: a load pass whose lines are all well-formed deprecated commands applies
\* them, reports each with a success status and ends with the error flag false
C6_DeprecationIsSuccess ==
    (pass.opened /\ PassOver /\ pass.file # <<>>
     /\ \A i \in 1..Len(pass.file) : pass.file[i] \in Deprecated)
        => /\ ~pass.config.errors
           /\ \A i \in 1..Len(pass.file) : pass.config.log[i] = SUCCESS
           /\ (\E i \in 1..Len(pass.file) : pass.file[i] = L_acked)
                 => (AckedKey \in DOMAIN rules /\ rules[AckedKey].fg = 1
                     /\ rules[AckedKey].bg = 4)
           /\ (\E i \in 1..Len(pass.file) : pass.file[i] = L_view_branch)
                 => (<<k_main, <<s_g>>>> \in DOMAIN keybindings
                     /\ keybindings[<<k_main, <<s_g>>>>].req = r_view_refs)

\* the lines of LoadLines that set_option answers with a status other than
\* SUCCESS, and the line read_option skips
Failing == Deprecated \cup {L_frob}

ExpectedLog(line, code) ==
    IF line = L_comment THEN code = SKIPPED
    ELSE IF line \in Failing THEN code # SUCCESS /\ code # SKIPPED
    ELSE code = SUCCESS

\* the tab-size the lines of file leave, old when none of them sets it
RECURSIVE ExpectedTabSize(_, _)
ExpectedTabSize(file, old) ==
    IF file = <<>> THEN old
    ELSE ExpectedTabSize(Tail(file),
                         IF Head(file) = L_tab4 THEN 4
                         ELSE IF Head(file) = L_tab8 THEN 8
                         ELSE IF Head(file) = L_source_inc THEN 2
                         ELSE old)

\* C9: a load pass never stops on a line error: read_option answers OK for
\* every line, the lines are dispatched one by one in file order, each failing
\* line sets the error flag, the valid lines after a failing one take effect,
\* and after the last line load_option_file warns once when a line failed
\* and returns SUCCESS
C9_PassNeverStops ==
    /\ pass.ret = "OK"
    /\ pass.opened =>
          /\ pass.config.lineno <= Len(pass.file)
          /\ Len(pass.config.log) = pass.config.lineno
          /\ \A i \in 1..pass.config.lineno :
                ExpectedLog(pass.file[i], pass.config.log[i])
          /\ pass.config.errors <=>
                \E i \in 1..pass.config.lineno : pass.file[i] \in Failing
    /\ (pass.opened /\ (PassOver \/ ~pass.active)) =>
          /\ pass.config.lineno = Len(pass.file)
          /\ \E old \in {value.tab_size} \cup {0, 2, 4, 8} :
                value.tab_size = ExpectedTabSize(pass.file, old)
          /\ (\E i \in 1..Len(pass.file) :
                pass.file[i] \in {L_tab4, L_tab8, L_source_inc})
                => value.tab_size = ExpectedTabSize(pass.file, 0)
    /\ (pass.opened /\ ~pass.active /\ pass.src \in {"system", "user"}) =>
          /\ pass.result = SUCCESS
          /\ pass.warned <=> \E i \in 1..Len(pass.file) : pass.file[i] \in Failing

\* a failing line followed by a valid one, the pass returned
C9_Witness ==
    /\ pass.opened /\ ~pass.active /\ pass.src = "user"
    /\ pass.file = <<L_frob, L_tab4>>
    /\ pass.config.errors /\ pass.warned /\ pass.result = SUCCESS
    /\ value.tab_size = 4

Sources == [i \in 1..Len(passlog) |-> passlog[i].src]

BuiltinLoaded == phase = "builtin" \/ \E i \in 1..Len(passlog) : passlog[i].src = "builtin"

\* C10: load_options applies the system file, then the built-in block, then
\* the user file; the built-in block is loaded iff the system file does not
\* exist and no override was given; a line error in the built-in block ends
\* the process; in every other case the user file is attempted, and its
\* absence is no error
C10_SourceOrder ==
    /\ Sources \in {<<>>, <<"system">>, <<"system", "builtin">>,
                    <<"system", "user">>, <<"system", "builtin", "user">>}
    /\ (phase \in {"open_system", "system"}) <=> (passlog = <<>> /\ phase # "idle")
    /\ phase \in {"builtin", "open_user", "user", "finish", "done", "died"} =>
          (BuiltinLoaded <=>
              (passlog[1].code = "ERROR_FILE_DOES_NOT_EXIST" /\ env.tigrc_system.null))
    /\ phase = "died" <=>
          (pass.src = "builtin" /\ ~pass.active
           /\ \E i \in 1..Len(pass.file) : pass.file[i] \in Failing)
    /\ phase = "died" => Sources = <<"system", "builtin">>
    /\ phase \in {"finish", "done"} => Sources[Len(Sources)] = "user"
    /\ phase \in {"open_user", "user"} =>
          Sources \in {<<"system">>, <<"system", "builtin">>}

\* the system file is missing, the built-in block loaded, the user file
\* missing, and load_options returned
C10_Witness ==
    /\ phase = "done"
    /\ Len(passlog) = 3
    /\ passlog[1].code = "ERROR_FILE_DOES_NOT_EXIST"
    /\ passlog[2] = [src |-> "builtin", code |-> "SUCCESS"]
    /\ passlog[3] = [src |-> "user", code |-> "ERROR_FILE_DOES_NOT_EXIST"]

(***************************************************************************)
(* The command line, the imported keys and the files of the precedence     *)
(* specification.                                                          *)
(***************************************************************************)
f_show_notes_ref == <<"-","-","s","h","o","w","-","n","o","t","e","s","=","r","e","f">>
f_U5 == <<"-","U","5">>
s_HEAD == <<"H","E","A","D">>
s_7 == <<"7">>
s_9 == <<"9">>
s_ref == <<"r","e","f">>

ArgvFlags == {f_topo_order, f_ignore_all_space, f_no_notes, f_show_notes_ref, f_U5,
              s_HEAD}

\* every command line of at most n of the flags
RECURSIVE ArgvsUpTo(_)
ArgvsUpTo(n) ==
    IF n = 0 THEN {<<>>}
    ELSE LET shorter == ArgvsUpTo(n - 1)
         IN shorter \cup {Append(a, f) : a \in shorter, f \in ArgvFlags}

\* every command line of at most MaxFlags flags, and three longer ones: both
\* notes flags, a flag after another option's flag, a flag after a revision
Argvs ==
    (ArgvsUpTo(MaxFlags) \ {<<>>})
        \cup {<<f_no_notes, f_show_notes_ref>>, <<f_topo_order, f_U5>>,
              <<s_HEAD, f_ignore_all_space>>}

Key(name, toks) == [name |-> name, value |-> Join(toks)]

SetKeys == {Key(s_tig \o s_commit_order, <<s_date>>),
            Key(s_tig \o s_show_notes, <<s_ref>>),
            Key(s_tig \o s_diff_context, <<s_7>>),
            Key(s_tig \o s_ignore_space, <<s_some, s_x>>),
            Key(s_tig \o s_ignore_space, <<>>),
            Key(s_diff_context_key, <<s_9>>)}

L_order == Line(s_set, <<s_commit_order, s_eq, s_reverse>>)
L_notes == Line(s_set, <<s_show_notes, s_eq, s_yes>>)
L_context == Line(s_set, <<s_diff_context, s_eq, s_2>>)
L_space == Line(s_set, <<s_ignore_space, s_eq, s_at_eol, s_x>>)

ArgvLines == {L_order, L_notes, L_context, L_space}

\* the files of one `set' line, and two files of two
ArgvFiles == {<<l>> : l \in ArgvLines} \cup {<<L_space, L_context>>, <<L_order, L_notes>>}

ArgvEnvs == [tigrc_system : {Null}, tigrc_user : {Str(p_custom)}, home : {Null},
             tig_diff_opts : {Null}, diff_opts_from_args : {FALSE}]

ArgvNext ==
    \/ UpdateOptionsFromArgv(Argvs)
    \/ ReadRepoConfigOption(SetKeys, MaxOps)
    \/ LoadOptionsStart(ArgvEnvs, {"idle", "done"})
    \/ OpenFile(ArgvFiles)
    \/ ReadOption
    \/ EndFile
    \/ AfterSystem(ArgvFiles)
    \/ EndBuiltin
    \/ LoadOptionsFinish

\* at most MaxOps calls, in any order, of update_options_from_argv, of
\* read_repo_config_option on one key and of load_options
SpecArgv == Init /\ [][ArgvNext]_vars

(***************************************************************************)
(* Properties of the precedence specification.                             *)
(***************************************************************************)
\* the step ran a `set' command, from a file or from a tig.* key
SetCommandRan ==
    /\ last'.op \in {"read_option", "read_repo_config_option"}
    /\ last'.verb = s_set
    /\ ops' # ops \/ pass'.config.lineno # pass.config.lineno

\* C2: for every registry option whose seen flag is true, a command
\* `set <option> = <tokens...>', whatever the value tokens and however many,
\* leaves the value of that option and of every other option as it was, and
\* returns success (with one or more value tokens: option_set_command rejects
\* an argument vector shorter than three before it looks at the option)
C2_SeenSetIsNoop ==
    [][(/\ SetCommandRan
        /\ Len(last'.argv) >= 2
        /\ last'.argv[2] = s_eq
        /\ find_option_info(last'.argv[1]) # 0
        /\ seen[option_info[find_option_info(last'.argv[1])].id])
       => (/\ (Len(last'.argv) >= 3 => last'.code = SUCCESS)
           /\ value' = value
           /\ opt_notes_arg' = opt_notes_arg
           /\ seen' = seen)]_vars

\* `set ignore-space = at-eol x' was read from a file after the command line
\* gave --ignore-all-space
C2_Witness ==
    /\ last.op = "read_option"
    /\ last.verb = s_set
    /\ last.argv = <<s_ignore_space, s_eq, s_at_eol, s_x>>
    /\ last.code = SUCCESS
    /\ seen.ignore_space
    /\ value.ignore_space = 1

\* C3: an option update_options_from_argv has set from a command-line flag
\* keeps the command-line value through every later load_options, `set'
\* command of a file or of a tig.* key, and imported diff.context key
C3_CommandLineWins ==
    \A id \in DOMAIN cmdline :
        /\ seen[id]
        /\ value[id] = cmdline[id].value
        /\ id = "show_notes" => opt_notes_arg = cmdline[id].notes

\* -U5 was given, load_options ran and read `set diff-context = 2', and the
\* context is still 5
C3_Witness ==
    /\ "diff_context" \in DOMAIN cmdline
    /\ last.op = "read_option"
    /\ last.argv = <<s_diff_context, s_eq, s_2>>
    /\ value.diff_context = 5

(***************************************************************************)
(* The tig.color.* keys of the style specification.                        *)
(***************************************************************************)
s_green == <<"g","r","e","e","n">>
s_300 == <<"3","0","0">>
s_bold == <<"b","o","l","d">>
s_underline == <<"u","n","d","e","r","l","i","n","e">>
s_blinky == <<"b","l","i","n","k","y">>
s_color9 == <<"c","o","l","o","r","9">>
s_help_keymap == <<"h","e","l","p","-","k","e","y","m","a","p">>
s_nosuch == <<"n","o","s","u","c","h">>
s_FILE == <<"F","I","L","E">>

Dotted(prefix, name) == IF prefix = <<>> THEN name ELSE prefix \o <<".">> \o name

ColorSelectors == {l_file, s_FILE, Dotted(k_main, l_file), s_acked,
                   Dotted(k_main, s_help_keymap), s_nosuch}

ColorValues == {<<s_red, s_blue>>, <<s_green, s_300>>,
                <<s_green, s_blue, s_blinky, s_bold>>,
                <<s_color9, s_default, s_bold, s_underline>>}

ColorKeys == {Key(s_tig_color \o sel, val) : sel \in ColorSelectors, val \in ColorValues}

ColorNext == ReadRepoConfigOption(ColorKeys, MaxKeys)

\* at most MaxKeys tig.color.* keys imported one after the other
SpecColor == Init /\ [][ColorNext]_vars

(***************************************************************************)
(* Properties of the style specification.                                  *)
(***************************************************************************)
\* C4: after any sequence of `color' commands, the rule of a selector holds
\* the foreground and the background of the most recent successful command
\* for it, and its attribute mask is the OR of the attribute names of that
\* command and of no earlier one
C4_LastSuccessfulWins ==
    \A k \in DOMAIN colorlog : rules[k] = colorlog[k]

\* the entries of the obsolete table tried in every state, with and without a
\* scope on the old name
RemapPrefixes == {<<>>, k_main}

RemapValues == {<<s_green, s_blue, s_bold, s_underline>>, <<s_green, s_300>>}

\* the selector of `new' without the scope new itself names
Unscoped(new) ==
    IF ~is_quoted(new[1]) /\ strchr(new, ".") THEN skip(new, strcspn(new, {"."}) + 1)
    ELSE new

\* the selector the claim compares `prefix.old' with
NewSelector(prefix, new) == IF prefix = <<>> THEN new ELSE Dotted(prefix, Unscoped(new))

SameAsNew(old, new, prefix, val) ==
    With(option_color_command(Store, <<Dotted(prefix, old)>> \o val), LAMBDA a :
    With(option_color_command(Store, <<NewSelector(prefix, new)>> \o val), LAMBDA b :
        /\ a.st = b.st
        /\ b.code = SUCCESS =>
              a.code = error("%s has been replaced by %s", <<old, new>>)
        /\ b.code # SUCCESS => a.code = b.code))

\* C5: for every entry (old, new) of the obsolete table, `color <old> <fg>
\* <bg> [attrs]' leaves the store as `color <new> <fg> <bg> [attrs]' does, a
\* scope given on the old name being kept, and reports the deprecation that
\* names old and new
C5_ObsoleteSameAsNew ==
    \A i \in 1..Len(color_obsolete), prefix \in RemapPrefixes, val \in RemapValues :
        SameAsNew(color_obsolete[i][1], color_obsolete[i][2], prefix, val)

\* `color main.help-keymap red blue' was run: the rule is main's `section'
C5_Witness ==
    /\ last.op = "read_repo_config_option"
    /\ last.argv = <<Dotted(k_main, s_help_keymap), s_red, s_blue>>
    /\ IsDeprecation(last.code)
    /\ [prefix |-> k_main, kind |-> "name", sel |-> l_section] \in DOMAIN rules
    /\ [prefix |-> k_help, kind |-> "name", sel |-> l_section] \notin DOMAIN rules

(***************************************************************************)
(* The tig.bind.* keys of the binding specification.                       *)
(***************************************************************************)
s_Branch == <<"B","r","a","n","c","h">>
s_nomap == <<"n","o","m","a","p">>
s_gg == <<"g","g">>
s_F5 == <<"<","F","5",">">>
s_Bogus == <<"<","B","o","g","u","s",">">>
s_View_Grep == <<"V","i","e","w","-","G","r","e","p">>
s_diff_context_down == <<"d","i","f","f","-","c","o","n","t","e","x","t","-","d","o","w","n">>
s_diff_context_up == <<"d","i","f","f","-","c","o","n","t","e","x","t","-","u","p">>
s_bang_git == <<"!","g","i","t">>
s_gc == <<"g","c">>
s_d == <<"d">>
s_u == <<"u">>
s_author_display == <<"a","u","t","h","o","r","-","d","i","s","p","l","a","y">>

BindScopes == {k_main, s_branch, s_Branch, s_nomap}

BindValues == {<<s_g, r_view_grep>>, <<s_g, s_view_branch>>, <<s_t, s_toggle_author>>,
               <<s_d, s_diff_context_down>>, <<s_u, s_diff_context_up>>,
               <<s_x, s_bang_git, s_gc>>, <<s_gg, r_quit>>, <<s_Bogus, r_quit>>,
               <<s_F5, s_View_Grep>>}

BindKeys == {Key(s_tig_bind \o scope, val) : scope \in BindScopes, val \in BindValues}

BindNext == ReadRepoConfigOption(BindKeys, MaxKeys)

\* at most MaxKeys tig.bind.* keys imported one after the other
SpecBind == Init /\ [][BindNext]_vars

(***************************************************************************)
(* Properties of the binding specification.                                *)
(***************************************************************************)
\* the step ran a `bind' command with its three arguments
BindCommandRan ==
    /\ ops' # ops
    /\ last'.verb = s_bind
    /\ Len(last'.argv) >= 3

\* the bindings of the key maps other than keymap are as they were
OtherKeymapsKept(keymap) ==
    \A k \in DOMAIN keybindings' :
        k[1] # keymap => (k \in DOMAIN keybindings /\ keybindings'[k] = keybindings[k])

Request(req) == [kind |-> "request", req |-> req, argv |-> <<>>]
Run(argv) == [kind |-> "run", req |-> <<>>, argv |-> argv]

\* the third argument the claim gives the :toggle command of a toggle name
ExpectedToggleArg(name) ==
    IF name = s_diff_context_down THEN <<s_minus1>>
    ELSE IF name = s_diff_context_up THEN <<s_plus1>>
    ELSE <<>>

\* what the claim's stages install for the action tokens, and the status
ExpectedBind(action) ==
    IF get_request(action[1]) # <<>>
    THEN [binding |-> Request(get_request(action[1])), notice |-> ""]
    ELSE IF find_remapped(bind_obsolete, action[1]) # 0
    THEN [binding |-> Request(bind_obsolete[find_remapped(bind_obsolete, action[1])][2]),
          notice |-> "%s has been renamed to %s"]
    ELSE IF find_remapped(toggles, action[1]) # 0
    THEN [binding |-> Run(<<s_toggle, toggles[find_remapped(toggles, action[1])][2]>>
                          \o ExpectedToggleArg(toggles[find_remapped(toggles, action[1])][1])),
          notice |-> "%s has been replaced by `:toggle %s%s%s'"]
    ELSE [binding |-> Run(action), notice |-> ""]

\* the command got past the key map and the key
KeyAccepted(code) ==
    code.fmt \notin {"Unknown key map: %s", "Unknown key combo: %s",
                     "Max %zu keys are allowed in key combos: %s"}

FirstKey(arg) == IF arg[1] = "<" /\ Len(arg) > 1 THEN <<arg>> ELSE <<<<arg[1]>>>>

\* C7: when the scope token of `bind' names no key map, the binding goes to
\* the refs key map if the token is literally `branch'; for every other token
\* the command fails with the unknown-key-map error and installs nothing
C7_UnknownKeymap ==
    [][(BindCommandRan /\ get_keymap(last'.argv[1]) = <<>>)
       => IF last'.argv[1] = s_branch
          THEN /\ last'.code.fmt # "Unknown key map: %s"
               /\ OtherKeymapsKept(s_refs)
               /\ Applied(last'.code) =>
                     /\ <<s_refs, FirstKey(last'.argv[2])>> \in DOMAIN keybindings'
                     /\ keybindings'[<<s_refs, FirstKey(last'.argv[2])>>] =
                           ExpectedBind(SubSeq(last'.argv, 3, Len(last'.argv))).binding
          ELSE /\ last'.code = error("Unknown key map: %s", <<last'.argv[1]>>)
               /\ keybindings' = keybindings]_vars

\* `bind branch g view-grep' was run and g is bound in refs
C7_Witness ==
    /\ last.verb = s_bind
    /\ last.argv = <<s_branch, s_g, r_view_grep>>
    /\ last.code = SUCCESS
    /\ <<s_refs, <<s_g>>>> \in DOMAIN keybindings
    /\ keybindings[<<s_refs, <<s_g>>>>].req = r_view_grep

\* C8: `bind' resolves its action in a fixed order: a request name binds the
\* request; else a name of the rename table binds the renamed request; else a
\* name of the toggle table installs `:toggle <option>', with -1 for
\* diff-context-down, +1 for diff-context-up and no argument otherwise; else
\* the action tokens are installed as a run command.  The rename and toggle
\* stages install the binding and then report the deprecation.
C8_ActionStages ==
    [][(BindCommandRan /\ KeyAccepted(last'.code))
       => \E k \in DOMAIN keybindings' :
             /\ k[1] = IF get_keymap(last'.argv[1]) # <<>>
                       THEN get_keymap(last'.argv[1]) ELSE s_refs
             /\ k[2] = FirstKey(last'.argv[2])
             /\ With(ExpectedBind(SubSeq(last'.argv, 3, Len(last'.argv))), LAMBDA e :
                   /\ keybindings'[k] = e.binding
                   /\ last'.code.fmt = e.notice
                   /\ e.notice = "" => last'.code = SUCCESS)
             /\ \A j \in DOMAIN keybindings' \ {k} :
                   j \in DOMAIN keybindings /\ keybindings'[j] = keybindings[j]]_vars

\* `bind main d diff-context-down' was run: d runs `:toggle diff-context -1'
\* and the deprecation was reported
C8_Witness ==
    /\ last.verb = s_bind
    /\ last.argv = <<k_main, s_d, s_diff_context_down>>
    /\ IsDeprecation(last.code)
    /\ keybindings[<<k_main, <<s_d>>>>] = Run(<<s_toggle, s_diff_context, s_minus1>>)

(***************************************************************************)
(* The value coercers called on their own.                                 *)
(***************************************************************************)
\* parse_bool(&opt, arg) on one token: `last' keeps the token, the value left
\* in *opt and the status
ParseBool(Tokens) ==
    /\ phase = "idle"
    /\ ops < MaxOps
    /\ ops' = ops + 1
    /\ \E arg \in Tokens :
          With(parse_bool(arg), LAMBDA r :
            last' = [op |-> "parse_bool", verb |-> <<>>, argv |-> <<arg>>,
                     code |-> r.code, val |-> r.val])
    /\ UNCHANGED <<value, seen, opt_notes_arg, rules, keybindings, pass, phase,
                   env, cmdline, colorlog, passlog>>

\* every spelling of word in upper and lower case letters
RECURSIVE CaseVariants(_)
CaseVariants(word) ==
    IF word = <<>> THEN {<<>>}
    ELSE {<<c>> \o rest : c \in {word[1], toupper(word[1])},
                          rest \in CaseVariants(Tail(word))}

s_maybe == <<"m","a","y","b","e">>
s_on == <<"o","n">>
s_10 == <<"1","0">>
s_truex == <<"t","r","u","e","x">>

TrueWords == {s_1, s_true, s_yes}
FalseWords == {s_0, s_false, s_no}

BoolTokens ==
    UNION {CaseVariants(w) : w \in TrueWords \cup FalseWords}
        \cup {s_maybe, s_on, s_10, s_2, s_truex, <<>>}

\* parse_step(&opt, arg) on one token
ParseStep(Tokens) ==
    /\ phase = "idle"
    /\ ops < MaxOps
    /\ ops' = ops + 1
    /\ \E arg \in Tokens :
          With(parse_step(arg), LAMBDA r :
            last' = [op |-> "parse_step", verb |-> <<>>, argv |-> <<arg>>,
                     code |-> r.code, val |-> r.val])
    /\ UNCHANGED <<value, seen, opt_notes_arg, rules, keybindings, pass, phase,
                   env, cmdline, colorlog, passlog>>

\* the decimal text of an integer
RECURSIVE DecDigits(_)
DecDigits(n) ==
    IF n < 10 THEN <<DigitSeq[n + 1]>>
    ELSE DecDigits(n \div 10) \o <<DigitSeq[(n % 10) + 1]>>

Dec(n) == IF n < 0 THEN <<"-">> \o DecDigits(0 - n) ELSE DecDigits(n)

\* the integer parts of the step tokens
StepCounts == ((0 - 3)..12) \cup (48..52) \cup (97..103) \cup {150, 1000}

Percent(n) == Dec(n) \o <<"%">>

StepTokens ==
    {Percent(n) : n \in StepCounts} \cup {Dec(n) : n \in StepCounts}
        \cup {<<"%">>, <<"x","%">>, <<"5","%","0">>, <<>>}

CoerceNext ==
    \/ ParseBool(BoolTokens)
    \/ ParseStep(StepTokens)

\* at most MaxOps calls of parse_bool and parse_step, each on one token
SpecCoerce == Init /\ [][CoerceNext]_vars

(***************************************************************************)
(* Properties of the coercers.                                             *)
(***************************************************************************)
\* a and b are the same word but for the case of their letters
SameWord(a, b) ==
    /\ Len(a) = Len(b)
    /\ \A i \in 1..Len(a) : toupper(a[i]) = toupper(b[i])

NonBoolean(arg) == error("Non-boolean value treated as false: %s", <<arg>>)

\* C11: parse_bool gives true with success for 1, true, yes and false with
\* success for 0, false, no, whatever the case of the letters; for every
\* other token it gives false and the non-boolean diagnostic
C11_BoolAnyLetterCase ==
    last.op = "parse_bool" =>
        With(last.argv[1], LAMBDA arg :
            IF \E w \in TrueWords : SameWord(arg, w)
            THEN last.val = TRUE /\ last.code = SUCCESS
            ELSE IF \E w \in FalseWords : SameWord(arg, w)
            THEN last.val = FALSE /\ last.code = SUCCESS
            ELSE last.val = FALSE /\ last.code = NonBoolean(arg))

\* a step as parse_step leaves it in *opt: the quotient num / den
Step(num, den) == [num |-> num, den |-> den]

TooLarge == error("Percentage is larger than 100%", <<>>)
TooSmall == error("Percentage is less than 0%", <<>>)

\* parse_step was called on the count n written without a percent sign: the
\* count is stored as it is, with success
CountKept(n) ==
    last.argv[1] = Dec(n) => last.val = Step(n, 1) /\ last.code = SUCCESS

\* C12 as stated: for a token n%, parse_step stores (n-1)/100 and succeeds
\* exactly when 0 <= n < 100, fails with 0.99 stored for every n >= 100 and
\* with 1 stored for every n < 0; a token without % stores the count and
\* succeeds
C12_StepBelowHundred ==
    last.op = "parse_step" =>
        \A n \in StepCounts :
            /\ CountKept(n)
            /\ last.argv[1] = Percent(n) =>
                  IF 0 <= n /\ n < 100
                  THEN last.val = Step(n - 1, 100) /\ last.code = SUCCESS
                  ELSE IF n >= 100
                  THEN last.val = Step(99, 100) /\ last.code = TooLarge
                  ELSE last.val = Step(1, 1) /\ last.code = TooSmall

\* C12: for a token n%, parse_step stores (n-1)/100 and succeeds exactly when
\* 1 <= n <= 100 (100% is stored as 0.99, with success); it fails with 0.99
\* stored for every n >= 101 and with 1 stored for every n <= 0; a token
\* without % stores the count and succeeds
C12_StepShiftedDown ==
    last.op = "parse_step" =>
        \A n \in StepCounts :
            /\ CountKept(n)
            /\ last.argv[1] = Percent(n) =>
                  IF 1 <= n /\ n <= 100
                  THEN last.val = Step(n - 1, 100) /\ last.code = SUCCESS
                  ELSE IF n >= 101
                  THEN last.val = Step(99, 100) /\ last.code = TooLarge
                  ELSE last.val = Step(1, 1) /\ last.code = TooSmall

\* parse_step was called on 100% and succeeded, leaving 0.99
C12_Witness ==
    /\ last.op = "parse_step"
    /\ last.argv = <<Percent(100)>>
    /\ last.code = SUCCESS
    /\ last.val = Step(99, 100)

(***************************************************************************)
(* The line specification: load_options over lines that `source' other     *)
(* files and lines that hold comment markers and quotes.                   *)
(***************************************************************************)
q_hash_define == <<"\"","#","d","e","f","i","n","e","\"">>
q_a_hash_b == <<"'","a","#","b","'">>
q_a_b == <<"\"","a"," ","b","\"">>
s_hash == <<"#">>
s_8_hash_x == <<"8","#","x">>

L_source_none == Line(s_source, <<>>)
L_source_two == Line(s_source, <<p_inc, p_gone>>)
L_source_gone == Line(s_source, <<p_gone>>)
L_source_home == Line(s_source, <<p_user>>)
L_color_quoted_hash == Line(s_color, <<q_hash_define, s_red, s_blue>>)
L_args_quoted_hash == Line(s_set, <<s_diff_options, s_eq, q_a_hash_b, s_x>>)
L_args_quoted == Line(s_set, <<s_diff_options, s_eq, q_a_b, s_hash, s_x>>)
L_tab4_comment == Line(s_set, <<s_tab_size, s_eq, s_4, s_hash, s_x>>)
L_tab8_hash == Line(s_set, <<s_tab_size, s_eq, s_8_hash_x>>)

LineLines == {L_source_none, L_source_two, L_source_gone, L_source_home,
              L_source_inc, L_color_quoted_hash, L_args_quoted_hash,
              L_args_quoted, L_tab4_comment, L_tab8_hash}

LineFiles == FilesUpTo(LineLines, MaxLines)

LineEnvs == [tigrc_system : {Null}, tigrc_user : {Null},
             home : {Null, Str(p_home)}, tig_diff_opts : {Null},
             diff_opts_from_args : {FALSE}]

LineNext ==
    \/ LoadOptionsStart(LineEnvs, {"idle"})
    \/ OpenFile(LineFiles)
    \/ ReadOption
    \/ EndFile
    \/ AfterSystem(LineFiles)
    \/ EndBuiltin
    \/ LoadOptionsFinish

\* one run of load_options over every system, built-in and user source of at
\* most MaxLines of these lines
SpecLine == Init /\ [][LineNext]_vars

(***************************************************************************)
(* Properties of the line specification.                                   *)
(***************************************************************************)
\* the step is read_option on the next line of the source being loaded
LineRead ==
    /\ pass.active
    /\ pass'.config.lineno = pass.config.lineno + 1
    /\ last'.op = "read_option"

\* the line that step reads
NextLine == pass.file[pass.config.lineno + 1]

\* the step changes no option, rule or binding
StoreKept ==
    /\ value' = value
    /\ seen' = seen
    /\ opt_notes_arg' = opt_notes_arg
    /\ rules' = rules
    /\ keybindings' = keybindings

FileDoesNotExist(path) == error("File does not exist: %s", <<path>>)

\* the file `source path' names is missing
Missing(path) ==
    With(open_option_file(Str(path), env.home), LAMBDA o :
        o.kind = "path" /\ ~IncludeFS(o.path).exists)

\* C13: `source' with no argument or with more than one is rejected with an
\* error and loads no file; with one argument that names a missing file it
\* returns the file-not-found error, which no other failure returns
C13_SourceOneArgument ==
    [][(LineRead /\ NextLine.opt = s_source)
       => With(last'.argv, LAMBDA argv :
            /\ Len(argv) # 1 => last'.code # SUCCESS /\ StoreKept
            /\ Len(argv) = 1 =>
                  (last'.code = FileDoesNotExist(argv[1]) <=> Missing(argv[1])))]_vars

\* the position of the first `#' of str, from i on, that stands outside
\* quotes; Len(str) + 1 when there is none.  A token that starts with a quote
\* is quoted up to the next such quote; `quote' is the quote that is open, ""
\* when none is
RECURSIVE CommentStart(_, _, _)
CommentStart(str, i, quote) ==
    IF i > Len(str) THEN Len(str) + 1
    ELSE IF quote # "" THEN CommentStart(str, i + 1, IF str[i] = quote THEN "" ELSE quote)
    ELSE IF str[i] = "#" THEN i
    ELSE CommentStart(str, i + 1,
                      IF is_quoted(str[i]) /\ (i = 1 \/ isspace(str[i - 1]))
                      THEN str[i] ELSE "")

\* str without the comment that starts outside quotes
OutsideQuotes(str) == SubSeq(str, 1, CommentStart(str, 1, "") - 1)

\* C14: in a configuration line a `#' starts a comment only outside quotes:
\* the tokens that reach the command dispatcher are those of the value up to
\* the first `#' outside quotes, so a quoted token that holds a `#' arrives
\* whole, with the tokens after it
C14_CommentOutsideQuotes ==
    [][(LineRead /\ ~strchr(NextLine.opt, "#"))
       => last'.argv = argv_from_string(OutsideQuotes(NextLine.value))]_vars

(***************************************************************************)
(* The tig.<option> keys of the scalar specification: `set' commands on    *)
(* options no command-line flag has set, with one value token and more.    *)
(***************************************************************************)
s_bogus == <<"b","o","g","u","s">>
s_TRUE == <<"T","R","U","E">>

ScalarValues ==
    [tab_size |-> {<<s_4>>, <<s_4, s_x>>, <<s_8, s_9>>, <<s_0, s_x>>, <<s_4, s_8, s_x>>},
     diff_context |-> {<<s_7, s_x>>, <<s_9>>},
     commit_order |-> {<<s_date, s_x>>, <<s_bogus, s_x>>, <<s_reverse>>},
     ignore_space |-> {<<s_some, s_x>>},
     show_notes |-> {<<s_ref, s_x>>, <<s_no, s_x>>},
     file_filter |-> {<<s_yes>>, <<s_yes, s_x>>, <<s_maybe, s_x>>, <<s_TRUE, s_x>>}]

ScalarKeys ==
    UNION {{Key(s_tig \o option_info[i].name, toks) :
                toks \in ScalarValues[option_info[i].id]} :
           i \in {j \in 1..Len(option_info) : option_info[j].id \in DOMAIN ScalarValues}}

ScalarNext == ReadRepoConfigOption(ScalarKeys, MaxKeys)

\* at most MaxKeys tig.<option> keys imported one after the other
SpecScalar == Init /\ [][ScalarNext]_vars

(***************************************************************************)
(* Properties of the scalar specification.                                 *)
(***************************************************************************)
\* the step ran `set <option> = <token> <token>...' on a scalar option that
\* is not seen
ExtraTokenSet ==
    /\ ops' # ops
    /\ last'.op = "read_repo_config_option"
    /\ last'.verb = s_set
    /\ Len(last'.argv) > 3
    /\ last'.argv[2] = s_eq
    /\ find_option_info(last'.argv[1]) # 0
    /\ ~seen[option_info[find_option_info(last'.argv[1])].id]
    /\ option_info[find_option_info(last'.argv[1])].type # "const char **"

OnlyOneValue(name) == error("Option %s only takes one value", <<name>>)

\* first value tokens that coerce, and the value they are coerced to
FirstTokenValue ==
    {[name |-> s_tab_size, tok |-> s_4, id |-> "tab_size", val |-> 4],
     [name |-> s_tab_size, tok |-> s_8, id |-> "tab_size", val |-> 8],
     [name |-> s_diff_context, tok |-> s_7, id |-> "diff_context", val |-> 7],
     [name |-> s_commit_order, tok |-> s_date, id |-> "commit_order", val |-> 2],
     [name |-> s_ignore_space, tok |-> s_some, id |-> "ignore_space", val |-> 2],
     [name |-> s_show_notes, tok |-> s_ref, id |-> "show_notes", val |-> TRUE],
     [name |-> s_file_filter, tok |-> s_yes, id |-> "file_filter", val |-> TRUE]}

====
